---------------------------- MODULE Spec2Model ----------------------------
(***************************************************************************)
(* Webhook ingestion and call/message state aggregation of the CRM         *)
(* backend: src/webhook/pipecat.py (the calls collection, fed by the       *)
(* /voice, /call and /status webhooks), src/webhook/telnyx.py (the         *)
(* telnyx_webhook_events and telnyx_messages collections, fed by /sms) and *)
(* src/webhook/tools_webhook.py (the side-effect collections of the seven  *)
(* tool endpoints).                                                        *)
(*                                                                         *)
(* JSON values are modelled as strings: Absent is a key that is not in the *)
(* object, Null is JSON null, Empty is "", "true"/"false" are the JSON     *)
(* booleans.  A timestamp is the number of the request that took it (the   *)
(* clock `now` ticks once per request); NoTime is a timestamp never set.   *)
(* A MongoDB collection is the sequence of its documents in insertion      *)
(* order; a document keeps the fields the handlers read or the claims      *)
(* name, nested paths flattened (contact.name is contact_name).            *)
(***************************************************************************)
EXTENDS Integers, Sequences, FiniteSets, TLC

\* ---------------------------------------------------------------- bounds
\* Number of webhook deliveries in one run (also the range of the clock).
MaxRequests == 3

\* ---------------------------------------------------------------- values
Absent == "absent"
Null == "null"
Empty == ""
NoTime == 0

\* Python truthiness of a JSON value (absent reads as the falsy default).
Truthy(v) == v \notin {Absent, Null, Empty, "false"}

\* `a or b` on two .get() results.
Or(a, b) == IF Truthy(a) THEN a ELSE b

VARIABLES
    calls,                \* db.calls
    calls_unique_index,   \* the unique index on calls.call_key exists
    pipecat_INDEX_READY,  \* pipecat._INDEX_READY
    now,                  \* requests received so far
    request,              \* the delivery handled last
    response,             \* its HTTP response
    pc,                   \* per connection: where its /call handler stands
    local,                \* per connection: that handler's local variables
    telnyx_webhook_events,\* db.telnyx_webhook_events
    telnyx_messages,      \* db.telnyx_messages
    telnyx_unique_index,  \* the unique indices on event_id and message_id exist
    telnyx_INDEX_READY,   \* telnyx._INDEX_READY
    TELNYX_PUBLIC_KEY,    \* environment, read at import
    TELNYX_WEBHOOK_SECRET,
    sms_pc,               \* per connection: where its /sms handler stands
    sms_local,            \* per connection: that handler's local variables
    tool_records,         \* the seven side-effect collections of the tools
    clock,                \* the wall clock, in seconds
    store_reachable,      \* the MongoDB server answers (ping and commands)
    pipecat_database,     \* pipecat._database
    telnyx_database,      \* telnyx._database
    index_attempts        \* per module: runs of its index guard that
                          \* issued create_index

call_vars == <<calls, calls_unique_index, pipecat_INDEX_READY, pc, local>>

sms_vars == <<telnyx_webhook_events, telnyx_messages, telnyx_unique_index,
              telnyx_INDEX_READY, TELNYX_PUBLIC_KEY, TELNYX_WEBHOOK_SECRET,
              sms_pc, sms_local>>

tool_vars == <<tool_records, clock>>

store_vars ==
    <<store_reachable, pipecat_database, telnyx_database, index_attempts>>

vars == <<call_vars, sms_vars, tool_vars, store_vars, now, request, response>>

\* ------------------------------------------------------------- documents
\* The side-effect collections of the tool endpoints, and those whose tool
\* writes its record's id back into the call document.
Tools ==
    {"appointments", "notifications", "lead_qualifications",
     "availability_checks", "service_tickets", "pricing_requests",
     "emergency_requests"}

PatchingTools ==
    {"appointments", "lead_qualifications", "service_tickets",
     "emergency_requests"}

\* A synthesized id: prefix, clock second, tenant fragment.  NoId is none.
NoId == [prefix |-> "none", second |-> 0, tenant |-> <<>>]

\* A document of db.calls with no field set.  tool_links holds appointment_id,
\* qualification_id, service_ticket_id and emergency_id, by collection.
NoCallDoc ==
    [call_key |-> Absent, call_session_id |-> Absent, call_sid |-> Absent,
     call_control_id |-> Absent, call_completed |-> Absent,
     final_updated_at |-> NoTime, qualified |-> Absent,
     lead_status |-> Absent, contact_name |-> Absent,
     contact_phone_e164 |-> Absent, service_address_street |-> Absent,
     problem_summary |-> Absent, last_status |-> Absent,
     last_event_type |-> Absent, events |-> <<>>, updated_at |-> NoTime,
     conversation_log |-> <<>>, notes |-> Absent, reason_codes |-> <<>>,
     availability |-> <<>>, tool_links |-> [tool \in PatchingTools |-> NoId],
     duration |-> Absent, from |-> Absent, transcriptions |-> <<>>]

\* The fields whose values are lists.
ListFields == {"events", "conversation_log", "reason_codes", "availability"}

\* The scalar fields, which a $set of the call webhooks names by value.
SetPaths ==
    (DOMAIN NoCallDoc) \ (ListFields \cup {"tool_links", "transcriptions"})

\* An empty $set document: no path named.
NoSet == [f \in SetPaths |-> IF f \in {"final_updated_at", "updated_at"}
                             THEN NoTime ELSE Absent]

Named(ops, f) == ops[f] # NoSet[f]

\* A write that replaces the stored fields by the given ones, named or not.
ApplySet_replaces_document(doc, ops) ==
    [f \in DOMAIN doc |-> IF f \in SetPaths THEN ops[f] ELSE doc[f]]

\* MongoDB $set applied to one document.
ApplySet(doc, ops) ==
    [f \in DOMAIN doc |->
        IF f \in SetPaths /\ Named(ops, f) THEN ops[f] ELSE doc[f]]

\* The first (in insertion order) of the matching positions, 0 when none:
\* the document find_one, update_one and find_one_and_update act on.
First(hits) ==
    IF hits = {} THEN 0 ELSE CHOOSE i \in hits : \A j \in hits : i <= j

\* A unique index on call_key admits the collection: no two documents with
\* the same call_key, a missing call_key being indexed as null.
UniqueCallKeys(coll) ==
    \A i, j \in 1..Len(coll) : i # j => coll[i].call_key # coll[j].call_key

\* What the unique index, when it exists, lets be written.
IndexAdmits(idx, coll) == idx => UniqueCallKeys(coll)


\* ------------------------------------------------------- /webhooks/pipecat/call
\* clean_none_values on one scalar: None and "" are dropped.
clean_none_values(v) == IF v \in {Null, Empty} THEN Absent ELSE v

\* Lines 317-322: call_key when the key is in the payload, else
\* call_session_id when that key is, else None.
CallIdentifier(p) ==
    IF p.call_key # Absent THEN p.call_key
    ELSE IF p.call_session_id # Absent THEN p.call_session_id
    ELSE Absent

\* A conversation_log entry with no key left.
NoEntry == [timestamp |-> Absent, text |-> Absent]

\* clean_none_values on a list of objects (lines 130-141): each entry
\* cleaned, an entry left empty dropped.
CleanLog(log) ==
    SelectSeq([i \in 1..Len(log) |->
                  [timestamp |-> clean_none_values(log[i].timestamp),
                   text |-> clean_none_values(log[i].text)]],
              LAMBDA e : e # NoEntry)

\* clean_none_values on a list of scalars (lines 130-141): None and ""
\* items dropped.
CleanList(list) == SelectSeq(list, LAMBDA x : x \notin {Null, Empty})

\* Lines 328-336: the payload cleaned, call_key defaulted to the identifier.
CleanedData(p) ==
    LET c == [f \in DOMAIN p |->
                 IF f = "conversation_log" THEN CleanLog(p[f])
                 ELSE IF f \in ListFields THEN CleanList(p[f])
                 ELSE clean_none_values(p[f])]
    IN  [c EXCEPT !.call_key =
            IF c.call_key = Absent THEN CallIdentifier(p) ELSE c.call_key]

\* Lines 339-347.
IsFinalUpdate(c) ==
    \/ c.call_status \in {"completed", "disconnected"}
    \/ c.data_collection_status = "complete"
    \/ Truthy(c.call_completed)

\* Lines 350-355 and the filter of lines 435-437.
CallMatches(coll, id) ==
    {i \in 1..Len(coll) :
        coll[i].call_key = id \/ coll[i].call_session_id = id}

\* Lines 411-420: the four required sub-fields over existing merged with
\* incoming.
MergedView(existing, c, f) == IF c[f] # Absent THEN c[f] ELSE existing[f]

HasMinimumData(existing, c) ==
    /\ Truthy(MergedView(existing, c, "contact_name"))
    /\ Truthy(MergedView(existing, c, "contact_phone_e164"))
    /\ Truthy(MergedView(existing, c, "service_address_street"))
    /\ Truthy(MergedView(existing, c, "problem_summary"))

\* Lines 405-424: what a final update adds to set_operations.
FinalStamp(ops, existing, c, t) ==
    LET stamped == [ops EXCEPT !.call_completed = "true",
                               !.final_updated_at = t]
    IN  IF HasMinimumData(existing, c)
        THEN [stamped EXCEPT !.qualified = "true",
                             !.lead_status = "pending_approval"]
        ELSE stamped

\* The payload keys the model follows into the document.
CallFields ==
    {"call_key", "call_session_id", "call_completed", "qualified",
     "lead_status", "contact_name", "contact_phone_e164",
     "service_address_street", "problem_summary", "notes"}

\* Lines 373 and 402: `value not in [None, "", []]`, for a key that is there.
Meaningful(v) == v \notin {Absent, Null, Empty}

\* Lines 362-403: set_operations from the cleaned payload: nested sub-fields
\* by dotted path (lines 367-374), the other fields whole (lines 400-403),
\* each when its value is meaningful; updated_at is always among them.
LoopSetOperations(c, t) ==
    [f \in SetPaths |->
        IF f = "updated_at" THEN t
        ELSE IF f \in CallFields /\ Meaningful(c[f]) THEN c[f]
        ELSE NoSet[f]]

SetOperations(existing, c, t) ==
    IF IsFinalUpdate(c)
    THEN FinalStamp(LoopSetOperations(c, t), existing, c, t)
    ELSE LoopSetOperations(c, t)

\* Lines 454-473: the record a first delivery inserts: defaults, overridden
\* by every key of the cleaned payload.
NewRecord(c, t) ==
    LET dflt == [NoCallDoc EXCEPT !.lead_status = "new",
                                  !.qualified = "false",
                                  !.call_completed = "false",
                                  !.notes = Empty]
    IN  [f \in DOMAIN NoCallDoc |->
            IF f = "updated_at" THEN t
            ELSE IF f \in ListFields \ {"events"} THEN c[f]
            ELSE IF f \in CallFields /\ c[f] # Absent THEN c[f]
            ELSE dflt[f]]

\* Lines 375-388: the incoming entries whose timestamp no stored entry has.
NewEntries(existing, c) ==
    LET existing_timestamps ==
            {existing.conversation_log[i].timestamp :
                i \in 1..Len(existing.conversation_log)}
    IN  SelectSeq(c.conversation_log,
                  LAMBDA e : e.timestamp \notin existing_timestamps)

\* The elements of a list.
Range(list) == {list[i] : i \in 1..Len(list)}

\* list(a_set): the elements once each, in an order the runtime picks (the
\* model takes one; the claims read the list as a set).
ListOf(set) ==
    CHOOSE list \in [1..Cardinality(set) -> set] : Range(list) = set

\* A merge that stores the incoming codes alone.
MergedReasonCodes_replaces(existing, c) == c.reason_codes

\* Lines 396-398: combined_codes.
MergedReasonCodes(existing, c) ==
    ListOf(Range(existing.reason_codes) \cup Range(c.reason_codes))

\* An update that appends the incoming availability to the stored one.
ListOperations_appends_availability(doc, existing, c) ==
    [doc EXCEPT !.availability = @ \o c.availability,
                !.reason_codes = IF c.reason_codes # <<>>
                                 THEN MergedReasonCodes(existing, c) ELSE @]

\* Lines 389-399, the list-valued entries of set_operations applied: a
\* non-empty availability replaces the stored one, non-empty reason_codes
\* are stored merged with those find_one returned.
ListOperations(doc, existing, c) ==
    [doc EXCEPT !.availability = IF c.availability # <<>>
                                 THEN c.availability ELSE @,
                !.reason_codes = IF c.reason_codes # <<>>
                                 THEN MergedReasonCodes(existing, c) ELSE @]

\* The HTTP response of a handler; the fields of the JSON bodies the claims
\* read (operation, call_identifier/call_key/call_sid, is_final).
Response(ep, code, op, id, final) ==
    [endpoint |-> ep, code |-> code, operation |-> op,
     call_identifier |-> id, is_final |-> final]

NoResponse == Response("none", 0, "none", Absent, FALSE)

\* Lines 81-98 (telnyx.py 51-68): the module's _database after the call and
\* what the call returns.  _database is assigned before the ping, so a
\* failed ping returns None and leaves the unpinged database behind, which
\* every later call returns.
get_database(database, reachable) ==
    IF database = "None"
    THEN [database |-> "db", result |-> IF reachable THEN "db" ELSE "None"]
    ELSE [database |-> database, result |-> database]

\* A handler whose store commands raise: the 400 it reaches before any
\* command stays, anything else ends in the 500 of its except clause.
StoreDown(coll, r) ==
    [calls |-> coll,
     response |-> IF r.response.code = 400 THEN r.response
                  ELSE [r.response EXCEPT !.code = 500, !.operation = "none"]]

\* The handler's outcome: 503 when get_database returned None (lines
\* 193-196, 311-313, 535-537), else what its store commands make of it.
Served(ep, coll, got, reachable, r) ==
    IF got = "None"
    THEN [calls |-> coll, response |-> Response(ep, 503, "none", Absent, FALSE)]
    ELSE IF ~reachable THEN StoreDown(coll, r)
    ELSE r

\* Lines 349-355: find_one; what the handler keeps of it.
FindExisting(coll, id) ==
    LET i == First(CallMatches(coll, id))
    IN  IF i = 0 THEN [found |-> FALSE, doc |-> NoCallDoc]
        ELSE [found |-> TRUE, doc |-> coll[i]]

\* Lines 357-477: the write the handler issues after its find_one, against
\* the collection as it is then: update_one on the first document the
\* filter matches, or insert_one.  A write the unique index refuses raises
\* DuplicateKeyError, which line 498 turns into a 500.  With new entries
\* the update document is {"$set": ..., "conversation_log": {"$each": ...}}
\* (lines 426-431: push_operations merged in beside "$set", not under
\* "$push"); the store refuses a document that mixes an operator with a
\* field name, and that error becomes a 500 too.
CallWrite(coll, idx, existing, p, t) ==
    LET id == CallIdentifier(p)
        c == CleanedData(p)
        final == IsFinalUpdate(c)
        i == First(CallMatches(coll, id))
        updated == [coll EXCEPT ![i] =
                       ListOperations(
                           ApplySet(coll[i], SetOperations(existing.doc, c, t)),
                           existing.doc, c)]
        inserted == Append(coll, NewRecord(c, t))
    IN  IF existing.found
        THEN IF NewEntries(existing.doc, c) # <<>>
             THEN [calls |-> coll,
                   response |-> Response("call", 500, "none", id, final)]
             ELSE IF i = 0
             THEN [calls |-> coll,
                   response |-> Response("call", 200, "no_change", id, final)]
             ELSE IF IndexAdmits(idx, updated)
             THEN [calls |-> updated,
                   response |-> Response("call", 200, "updated", id, final)]
             ELSE [calls |-> coll,
                   response |-> Response("call", 500, "none", id, final)]
        ELSE IF IndexAdmits(idx, inserted)
             THEN [calls |-> inserted,
                   response |-> Response("call", 200, "created", id, final)]
             ELSE [calls |-> coll,
                   response |-> Response("call", 500, "none", id, final)]

\* A handler that goes on to find_one and the write without an identifier.
CallResult_without_identifier_check(coll, idx, p, t) ==
    CallWrite(coll, idx, FindExisting(coll, CallIdentifier(p)), p, t)

\* Lines 290-500, one delivery handled from request to response: 400 without
\* an identifier (lines 324-326), else find_one and the write.
CallResult(coll, idx, p, t) ==
    LET id == CallIdentifier(p)
    IN  IF ~Truthy(id)
        THEN [calls |-> coll,
              response |-> Response("call", 400, "none", Absent, FALSE)]
        ELSE CallWrite(coll, idx, FindExisting(coll, id), p, t)

\* ------------------------------------------------------ /webhooks/pipecat/voice
\* Lines 100-111: create the unique index unless the flag says it is there.
\* create_index fails (logged, flag left false) when the collection already
\* holds two documents with the same call_key.
ensure_index_once(coll, idx, ready) ==
    IF ready THEN [index |-> idx, ready |-> ready]
    ELSE IF idx \/ UniqueCallKeys(coll) THEN [index |-> TRUE, ready |-> TRUE]
    ELSE [index |-> idx, ready |-> FALSE]

\* An index guard that sets its flag although create_index raised.
Ensured_flag_on_failure(got, reachable, before, e) ==
    IF got = "None" \/ before.ready
    THEN [index |-> before.index, ready |-> before.ready, attempts |-> 0]
    ELSE IF ~reachable
    THEN [index |-> before.index, ready |-> TRUE, attempts |-> 1]
    ELSE [index |-> e.index, ready |-> TRUE, attempts |-> 1]

\* The index guard as a request runs it: not at all when get_database
\* returned None; with the flag set it issues nothing; with the store out
\* of reach its create_index raises, which it logs; else as computed in e.
\* attempts is 1 when create_index was issued.
Ensured(got, reachable, before, e) ==
    IF got = "None" \/ before.ready
    THEN [index |-> before.index, ready |-> before.ready, attempts |-> 0]
    ELSE IF ~reachable
    THEN [index |-> before.index, ready |-> FALSE, attempts |-> 1]
    ELSE [index |-> e.index, ready |-> e.ready, attempts |-> 1]

\* Line 212: telnyx.call_session_id, else raw_start_frame.start's.
VoiceSessionId(p) == Or(p.telnyx_call_session_id, p.start_call_session_id)

\* Line 213: telnyx.stream_id, else raw_start_frame.start's.
VoiceStreamId(p) == Or(p.telnyx_stream_id, p.start_stream_id)

\* A resolution that prefers the stream id.
VoiceCallKey_prefers_stream_id(p) == Or(VoiceStreamId(p), VoiceSessionId(p))

\* Line 216.
VoiceCallKey(p) == Or(VoiceSessionId(p), VoiceStreamId(p))

\* Lines 204-205.
VoiceEventType(p) == IF p.event_type = Absent THEN "unknown_event" ELSE p.event_type

VoiceCallStatus(p) == IF p.call_status = Absent THEN "unknown_status" ELSE p.call_status

\* Lines 228-262: the $set of the update.  An "initiated" event stores the
\* carrier metadata (telnyx_metadata replaced whole); any other event merges
\* every other payload key as it is.
VoiceSet(p, t) ==
    LET base == [NoSet EXCEPT !.last_status = VoiceCallStatus(p),
                              !.last_event_type = VoiceEventType(p),
                              !.updated_at = t]
    IN  IF VoiceCallStatus(p) = "initiated"
        THEN base
        ELSE [base EXCEPT !.call_completed = p.call_completed,
                          !.last_status = IF p.last_status = Absent THEN @
                                          ELSE p.last_status]

\* The contact object after the update: a payload of another event than
\* "initiated" that has a contact key puts its object in the $set, which
\* replaces the stored object whole (a sub-field it omits is gone).
VoiceContact(doc, p) ==
    IF /\ VoiceCallStatus(p) # "initiated"
       /\ (p.contact_name # Absent \/ p.contact_phone_e164 # Absent)
    THEN [name |-> p.contact_name, phone_e164 |-> p.contact_phone_e164]
    ELSE [name |-> doc.contact_name, phone_e164 |-> doc.contact_phone_e164]

\* telnyx_metadata.call_control_id after the update: $set of the whole
\* telnyx object on "initiated", untouched otherwise.
VoiceMetadata(doc, p) ==
    IF VoiceCallStatus(p) = "initiated" THEN p.call_control_id
    ELSE doc.call_control_id

\* Lines 235-238 against 257-261: a merged payload key that $setOnInsert
\* names too (call_key) makes MongoDB refuse the update document.
VoiceConflict(p) == VoiceCallStatus(p) # "initiated" /\ p.call_key # Absent

VoiceEvent(p) == [event_type |-> VoiceEventType(p), call_status |-> VoiceCallStatus(p)]

\* Lines 264-271: find_one_and_update({call_key}, ..., upsert=True).
VoiceUpsert(coll, p, t) ==
    LET k == VoiceCallKey(p)
        i == First({j \in 1..Len(coll) : coll[j].call_key = k})
        old == IF i = 0 THEN [NoCallDoc EXCEPT !.call_key = k] ELSE coll[i]
        set == ApplySet(old, VoiceSet(p, t))
        new == [set EXCEPT !.call_control_id = VoiceMetadata(old, p),
                           !.contact_name = VoiceContact(old, p).name,
                           !.contact_phone_e164 =
                               VoiceContact(old, p).phone_e164,
                           !.events = Append(old.events, VoiceEvent(p))]
    IN  IF i = 0 THEN Append(coll, new) ELSE [coll EXCEPT ![i] = new]

\* Lines 181-287 after ensure_index_once.
VoiceResult(coll, p, t) ==
    LET k == VoiceCallKey(p)
    IN  IF ~Truthy(k)
        THEN [calls |-> coll,
              response |-> Response("voice", 400, "none", Absent, FALSE)]
        ELSE IF VoiceConflict(p)
        THEN [calls |-> coll,
              response |-> Response("voice", 500, "none", k, FALSE)]
        ELSE [calls |-> VoiceUpsert(coll, p, t),
              response |-> Response("voice", 200, "upsert", k, FALSE)]

\* ----------------------------------------------------- /webhooks/pipecat/status
\* Line 545.
StatusCallSid(p) == Or(p.CallSid, p.call_control_id)

\* Line 542.
StatusEventType(p) == Or(p.event_type, "telnyx_status")

\* An update_data that holds the status fields for every event type.
StatusSet_for_every_event(p, t) ==
    [NoSet EXCEPT !.call_sid = StatusCallSid(p),
                  !.last_event_type = StatusEventType(p),
                  !.updated_at = t,
                  !.last_status =
                      IF Truthy(p.CallStatus) THEN p.CallStatus ELSE Absent,
                  !.duration = p.CallDuration,
                  !.from = p.From]

\* Lines 559-578: update_data with its None values removed (a form key
\* that is absent reads as None).
StatusSet(p, t) ==
    LET base == [NoSet EXCEPT !.call_sid = StatusCallSid(p),
                              !.last_event_type = StatusEventType(p),
                              !.updated_at = t]
    IN  IF StatusEventType(p) # "call.transcription"
        THEN [base EXCEPT !.last_status =
                 IF Truthy(p.CallStatus) THEN p.CallStatus ELSE Absent,
                          !.duration = p.CallDuration,
                          !.from = p.From]
        ELSE base

\* Lines 596-610: the entry pushed to transcriptions.
TranscriptionEntry(p) ==
    [transcript |-> IF p.transcript = Absent THEN Null ELSE p.transcript]

\* Lines 580-587.
StatusMatches(coll, sid) ==
    {i \in 1..Len(coll) :
        \/ coll[i].call_control_id = sid
        \/ coll[i].call_sid = sid
        \/ coll[i].call_key = sid}

StatusEvent(p) ==
    [event_type |-> StatusEventType(p),
     call_status |-> IF Truthy(p.CallStatus) THEN p.CallStatus ELSE Null]

\* Lines 589-616: update_one(query, update_doc, upsert=True).  The inserted
\* document has the $set and $push fields only: an $or query gives it none.
StatusUpsert(coll, p, t) ==
    LET sid == StatusCallSid(p)
        i == First(StatusMatches(coll, sid))
        old == IF i = 0 THEN NoCallDoc ELSE coll[i]
        set == ApplySet(old, StatusSet(p, t))
        new == [set EXCEPT !.events = Append(old.events, StatusEvent(p)),
                           !.transcriptions =
                               IF StatusEventType(p) = "call.transcription"
                               THEN Append(@, TranscriptionEntry(p)) ELSE @]
    IN  IF i = 0 THEN Append(coll, new) ELSE [coll EXCEPT ![i] = new]

\* Lines 523-634.
StatusResult(coll, idx, p, t) ==
    LET sid == StatusCallSid(p)
        matched == StatusMatches(coll, sid) # {}
        new == StatusUpsert(coll, p, t)
    IN  IF ~Truthy(sid)
        THEN [calls |-> coll,
              response |-> Response("status", 400, "none", Absent, FALSE)]
        ELSE IF ~IndexAdmits(idx, new)
        THEN [calls |-> coll,
              response |-> Response("status", 500, "none", sid, FALSE)]
        ELSE [calls |-> new,
              response |-> Response("status", 200,
                               IF matched THEN "updated" ELSE "created",
                               sid, FALSE)]

\* --------------------------------------------------------- /webhooks/telnyx/sms
\* A signature or MAC value: the key that made it and the bytes it covers.
\* Ed25519 and HMAC-SHA256 are taken as unforgeable: a value verifies only
\* under its own key and over its own bytes.
Sign(key, msg) == [key |-> key, msg |-> msg]

NoSignature == Sign(Absent, <<>>)

\* The Ed25519 public key that belongs to a signing key.
PublicKeyOf(sk) == IF sk = "telnyx-sk" THEN "telnyx-pk" ELSE "other-pk"

\* An HMAC check that parses the header and never compares the digest.
verify_v1_signature_unchecked(signature_header, raw_body, secret) ==
    /\ secret # Empty
    /\ signature_header.t # Absent
    /\ signature_header.v1.key # Absent

\* Lines 95-119: Ed25519 over "{timestamp}|{raw_body}".
verify_v2_signature(timestamp, raw_body, signature, public_key) ==
    /\ public_key # Empty
    /\ PublicKeyOf(signature.key) = public_key
    /\ signature.msg = <<timestamp, "|", raw_body>>

\* An HMAC check without the guard on an unset secret (lines 129-131).
verify_v1_signature_without_secret(signature_header, raw_body, secret) ==
    /\ signature_header.t # Absent
    /\ signature_header.v1.key # Absent
    /\ signature_header.v1 = Sign(secret, <<signature_header.t, ".", raw_body>>)

\* Lines 121-163: the header "t=<timestamp>,v1=<signature>" parsed, the
\* HMAC of "{timestamp}.{raw_body}" under the secret compared with v1.
verify_v1_signature(signature_header, raw_body, secret) ==
    /\ secret # Empty
    /\ signature_header.t # Absent
    /\ signature_header.v1.key # Absent
    /\ signature_header.v1 = Sign(secret, <<signature_header.t, ".", raw_body>>)

\* A selection that tries the HMAC header first and Ed25519 as fallback.
VerifyRequest_hmac_first(req, public_key, secret) ==
    LET h == req.headers
        v2 == /\ h.v2_sig # NoSignature
              /\ h.v2_ts # Absent
              /\ verify_v2_signature(h.v2_ts, req.body, h.v2_sig, public_key)
        v1 == /\ h.v1_sig.t # Absent \/ h.v1_sig.v1 # NoSignature
              /\ verify_v1_signature(h.v1_sig, req.body, secret)
    IN  IF v1 THEN [verified |-> TRUE, method |-> "hmac-sha256"]
        ELSE IF v2 THEN [verified |-> TRUE, method |-> "ed25519"]
        ELSE [verified |-> FALSE, method |-> "none"]

\* Lines 269-289: v2 first when both its headers are there, v1 as fallback.
VerifyRequest(req, public_key, secret) ==
    LET h == req.headers
        v2 == /\ h.v2_sig # NoSignature
              /\ h.v2_ts # Absent
              /\ verify_v2_signature(h.v2_ts, req.body, h.v2_sig, public_key)
        v1 == /\ h.v1_sig.t # Absent \/ h.v1_sig.v1 # NoSignature
              /\ verify_v1_signature(h.v1_sig, req.body, secret)
    IN  IF v2 THEN [verified |-> TRUE, method |-> "ed25519"]
        ELSE IF v1 THEN [verified |-> TRUE, method |-> "hmac-sha256"]
        ELSE [verified |-> FALSE, method |-> "none"]

\* dict.get(key): None for a missing key.
Get(v) == IF v = Absent THEN Null ELSE v

\* Lines 166-235: the flattened record (the fields the stores keep).
normalize_event(evt) ==
    [event_id |-> Get(evt.data_id),
     event_type |-> Get(evt.data_event_type),
     occurred_at |-> Get(evt.data_occurred_at),
     message_id |-> Get(evt.payload_id),
     status |-> Get(evt.payload_status),
     timestamps |-> [sent_at |-> Get(evt.payload_sent_at),
                     completed_at |-> Get(evt.payload_completed_at)]]

\* No two documents of a collection share the value of the keyed field.
UniqueEventIds(coll) ==
    \A i, j \in 1..Len(coll) : i # j => coll[i].event_id # coll[j].event_id

UniqueMessageIds(coll) ==
    \A i, j \in 1..Len(coll) : i # j => coll[i].message_id # coll[j].message_id

\* An index guard that sets its flag without creating any unique index.
ensure_indices_once_not_unique(evs, msgs, idx, ready) ==
    [index |-> idx, ready |-> TRUE]

\* Lines 70-92: both unique indices created, then the flag set; a failing
\* create_index (duplicates already stored) ends the attempt, flag unset.
ensure_indices_once(evs, msgs, idx, ready) ==
    IF ready THEN [index |-> idx, ready |-> TRUE]
    ELSE IF ~(idx.event_id \/ UniqueEventIds(evs))
    THEN [index |-> idx, ready |-> FALSE]
    ELSE IF ~(idx.message_id \/ UniqueMessageIds(msgs))
    THEN [index |-> [idx EXCEPT !.event_id = TRUE], ready |-> FALSE]
    ELSE [index |-> [event_id |-> TRUE, message_id |-> TRUE], ready |-> TRUE]

\* The filter {"event_id": event_id} of lines 327-328.
EventFind(coll, event_id) ==
    First({i \in 1..Len(coll) : coll[i].event_id = event_id})

\* An event update that has first_seen_at under $set, not $setOnInsert.
EventSet_sets_first_seen(doc, n, method, t) ==
    [doc EXCEPT !.event_type = n.event_type, !.occurred_at = n.occurred_at,
                !.last_seen_at = t, !.verification_method = method,
                !.first_seen_at = t]

\* Lines 329-341 on the matched document: $set.
EventSet(doc, n, method, t) ==
    [doc EXCEPT !.event_type = n.event_type, !.occurred_at = n.occurred_at,
                !.last_seen_at = t, !.verification_method = method]

\* Lines 329-341 on an insert: $setOnInsert, then $set.
EventInsert(n, method, t) ==
    EventSet([event_id |-> n.event_id, first_seen_at |-> t,
              last_seen_at |-> NoTime, event_type |-> Null,
              occurred_at |-> Null, verification_method |-> Null],
             n, method, t)

\* update_one(..., upsert=True) of lines 327-343, after its filter matched
\* document `found` (0: none).  An update is applied to that document; an
\* insert of a key that another connection has inserted meanwhile is
\* refused by the unique index, and the store then either applies the
\* update to that document or raises DuplicateKeyError (the server's
\* version decides); with no index the second document is stored.
EventWrite(coll, idx, found, n, method, t) ==
    LET i == EventFind(coll, n.event_id)
    IN  IF found # 0
        THEN {[coll |-> [coll EXCEPT ![found] = EventSet(coll[found], n, method, t)],
               raised |-> FALSE]}
        ELSE IF i # 0 /\ idx.event_id
        THEN {[coll |-> [coll EXCEPT ![i] = EventSet(coll[i], n, method, t)],
               raised |-> FALSE],
              [coll |-> coll, raised |-> TRUE]}
        ELSE {[coll |-> Append(coll, EventInsert(n, method, t)),
               raised |-> FALSE]}

\* The filter {"message_id": message_id} of lines 380-381.
MessageFind(coll, message_id) ==
    First({i \in 1..Len(coll) : coll[i].message_id = message_id})

\* A message update that stores the event id of this delivery alone.
MessageSet_replaces_event_ids(doc, n, method, t) ==
    [doc EXCEPT !.status = n.status, !.timestamps = n.timestamps,
                !.last_event_type = n.event_type,
                !.last_event_id = n.event_id,
                !.last_occurred_at = n.occurred_at, !.updated_at = t,
                !.verification_method = method,
                !.event_ids = IF Truthy(n.event_id) THEN {n.event_id} ELSE {}]

\* A message update that keeps the stored view when the incoming event
\* occurred before the one stored (ordering by occurred_at).
MessageSet_ordered_by_occurred_at(doc, n, method, t) ==
    LET stale == doc.last_occurred_at = "09:05" /\ n.occurred_at = "09:00"
        ids == IF Truthy(n.event_id) THEN doc.event_ids \cup {n.event_id}
               ELSE doc.event_ids
    IN  IF stale THEN [doc EXCEPT !.updated_at = t, !.event_ids = ids]
        ELSE [doc EXCEPT !.status = n.status, !.timestamps = n.timestamps,
                         !.last_event_type = n.event_type,
                         !.last_event_id = n.event_id,
                         !.last_occurred_at = n.occurred_at,
                         !.updated_at = t, !.verification_method = method,
                         !.event_ids = ids]

\* A write that names the event in last_event_id without recording it.
MessageSet_forgets_event(doc, n, method, t) ==
    [doc EXCEPT !.status = n.status, !.timestamps = n.timestamps,
                !.last_event_type = n.event_type,
                !.last_event_id = n.event_id,
                !.last_occurred_at = n.occurred_at, !.updated_at = t,
                !.verification_method = method]

\* Lines 347-378 on the matched document: $set of set_doc, and $addToSet
\* of the event id when there is one.
MessageSet(doc, n, method, t) ==
    [doc EXCEPT !.status = n.status, !.timestamps = n.timestamps,
                !.last_event_type = n.event_type,
                !.last_event_id = n.event_id,
                !.last_occurred_at = n.occurred_at, !.updated_at = t,
                !.verification_method = method,
                !.event_ids = IF Truthy(n.event_id)
                              THEN doc.event_ids \cup {n.event_id}
                              ELSE doc.event_ids]

\* Lines 368-374 on an insert: $setOnInsert, then the rest.
MessageInsert(n, method, t) ==
    MessageSet([message_id |-> n.message_id, created_at |-> t,
                updated_at |-> NoTime, status |-> Null,
                timestamps |-> [sent_at |-> Null, completed_at |-> Null],
                last_event_type |-> Null, last_event_id |-> Null,
                last_occurred_at |-> Null,
                verification_method |-> Null, event_ids |-> {}],
               n, method, t)

\* update_one(..., upsert=True) of lines 380-384; as EventWrite.
MessageWrite(coll, idx, found, n, method, t) ==
    LET i == MessageFind(coll, n.message_id)
    IN  IF found # 0
        THEN {[coll |-> [coll EXCEPT ![found] = MessageSet(coll[found], n, method, t)],
               raised |-> FALSE]}
        ELSE IF i # 0 /\ idx.message_id
        THEN {[coll |-> [coll EXCEPT ![i] = MessageSet(coll[i], n, method, t)],
               raised |-> FALSE],
              [coll |-> coll, raised |-> TRUE]}
        ELSE {[coll |-> Append(coll, MessageInsert(n, method, t)),
               raised |-> FALSE]}

\* The JSON body of the /sms response (lines 389-396), or of an error.
SmsResponse(code, n, method) ==
    [endpoint |-> "sms", code |-> code, event_id |-> n.event_id,
     message_id |-> n.message_id, verification_method |-> method]

\* ------------------------------------------------------- /webhooks/tools
\* A tenant id is the sequence of its characters, <<>> when the key is absent,
\* null or "".  str.upper on the letters.
UpperOf ==
    [a |-> "A", b |-> "B", c |-> "C", d |-> "D", e |-> "E", f |-> "F",
     g |-> "G", h |-> "H", i |-> "I", j |-> "J", k |-> "K", l |-> "L",
     m |-> "M", n |-> "N", o |-> "O", p |-> "P", q |-> "Q", r |-> "R",
     s |-> "S", t |-> "T", u |-> "U", v |-> "V", w |-> "W", x |-> "X",
     y |-> "Y", z |-> "Z"]

upper(text) ==
    [i \in 1..Len(text) |->
        IF text[i] \in DOMAIN UpperOf THEN UpperOf[text[i]] ELSE text[i]]

\* text[:n]
Slice(text, n) == SubSeq(text, 1, IF Len(text) < n THEN Len(text) ELSE n)

\* The literal each endpoint's id starts with.
IdPrefix ==
    [appointments |-> "apt", notifications |-> "sms",
     lead_qualifications |-> "qual", availability_checks |-> "avail",
     service_tickets |-> "TKT", pricing_requests |-> "price",
     emergency_requests |-> "EMG"]

\* The id of a new record: the prefix, datetime.now() to the second, and the
\* first 8 characters of the tenant id (tickets and emergencies: the first 4,
\* upper-cased).
SynthesizedId(tool, second, tenant_id) ==
    [prefix |-> IdPrefix[tool], second |-> second,
     tenant |-> IF tool \in {"service_tickets", "emergency_requests"}
                THEN upper(Slice(tenant_id, 4))
                ELSE Slice(tenant_id, 8)]

\* customer_data of the qualification tool, nested paths flattened; an
\* object is truthy when it has a key.
NoCustomerData ==
    [contact_name |-> Absent, contact_phone_e164 |-> Absent,
     service_address_street |-> Absent, service_address_zip |-> Absent,
     in_service_area |-> Absent, problem_summary |-> Absent,
     problem_category |-> Absent, problem_urgency |-> Absent,
     availability |-> <<>>]

HasKeys(cd) ==
    \/ \E f \in (DOMAIN cd) \ {"availability"} : cd[f] # Absent
    \/ cd.availability # <<>>

Points(earned, points) == IF earned THEN points ELSE 0

\* A scoring that counts the phone number for 10 points.
QualificationScore_phone_worth_10(cd) ==
      Points(Truthy(cd.contact_name), 10)
    + Points(Truthy(cd.contact_phone_e164), 10)
    + Points(Truthy(cd.service_address_street)
             /\ Truthy(cd.service_address_zip), 15)
    + Points(Truthy(cd.in_service_area), 10)
    + Points(Truthy(cd.problem_summary), 15)
    + Points(Truthy(cd.problem_category), 10)
    + Points(cd.problem_urgency \in {"emergency", "urgent"}, 10)
    + Points(cd.availability # <<>>, 10)

\* Lines 271-304: the score.
QualificationScore(cd) ==
      Points(Truthy(cd.contact_name), 10)
    + Points(Truthy(cd.contact_phone_e164), 20)
    + Points(Truthy(cd.service_address_street)
             /\ Truthy(cd.service_address_zip), 15)
    + Points(Truthy(cd.in_service_area), 10)
    + Points(Truthy(cd.problem_summary), 15)
    + Points(Truthy(cd.problem_category), 10)
    + Points(cd.problem_urgency \in {"emergency", "urgent"}, 10)
    + Points(cd.availability # <<>>, 10)

\* Lines 306-315: the status of a score.
QualificationStatus(score) ==
    IF score >= 70 THEN "qualified"
    ELSE IF score >= 50 THEN "needs_review"
    ELSE "disqualified"

\* Lines 273-315: the reasons, in the order they are appended.
QualificationReasons(cd, score) ==
       (IF Truthy(cd.contact_phone_e164) THEN <<>> ELSE <<"missing_phone">>)
    \o (IF Truthy(cd.in_service_area) THEN <<>>
        ELSE <<"out_of_service_area">>)
    \o (IF score >= 70 THEN <<>>
        ELSE IF score >= 50 THEN <<"low_score">>
        ELSE <<"insufficient_information">>)

\* Lines 109, 182 and 208, 268, 388, 483, 557, 651: the required fields.
\* `details` stands for the endpoint's own fields (customer_info and
\* appointment; phone_number and a valid message_type; service_address;
\* customer_data and problem_details; service_type; customer_data and
\* emergency_details).
ToolAccepts(tool, p) ==
    /\ p.tenant_id # <<>>
    /\ tool \in PatchingTools => Truthy(p.call_session_id)
    /\ IF tool = "lead_qualifications" THEN HasKeys(p.customer_data)
       ELSE Truthy(p.details)

\* The status a new record is stored with.
StoredStatus ==
    [appointments |-> "confirmed", notifications |-> "queued",
     availability_checks |-> Absent, service_tickets |-> "open",
     pricing_requests |-> Absent, emergency_requests |-> "dispatched"]

\* The record insert_one stores.
ToolRecord(tool, p, second) ==
    LET score == IF tool = "lead_qualifications"
                 THEN QualificationScore(p.customer_data) ELSE 0
    IN  [id |-> SynthesizedId(tool, second, p.tenant_id),
         tenant_id |-> p.tenant_id,
         call_session_id |-> Get(p.call_session_id),
         status |-> IF tool = "lead_qualifications"
                    THEN QualificationStatus(score) ELSE StoredStatus[tool],
         sent_at |-> NoTime,
         score |-> score,
         reasons |-> IF tool = "lead_qualifications"
                     THEN QualificationReasons(p.customer_data, score)
                     ELSE <<>>]

\* Lines 143-147, 341-352, 518-522, 681-691: update_one on the call whose
\* call_key is the record's call_session_id; no such call, no write.
BackPatch(coll, tool, rec) ==
    LET i == First({j \in 1..Len(coll) :
                       coll[j].call_key = rec.call_session_id})
    IN  IF i = 0 THEN coll
        ELSE [coll EXCEPT ![i] =
                 [@ EXCEPT !.tool_links = [@ EXCEPT ![tool] = rec.id],
                           !.qualified =
                               IF tool # "lead_qualifications" THEN @
                               ELSE IF rec.status = "qualified" THEN "true"
                               ELSE "false"]]

\* Lines 232-235: update_one on the notification with the new id.
MarkSent(coll, id, t) ==
    LET i == First({j \in 1..Len(coll) : coll[j].id = id})
    IN  IF i = 0 THEN coll
        ELSE [coll EXCEPT ![i] = [@ EXCEPT !.status = "sent", !.sent_at = t]]

\* The status a success response reports.
ReportedStatus ==
    [appointments |-> "confirmed", notifications |-> "sent",
     availability_checks |-> Absent, service_tickets |-> "created",
     pricing_requests |-> Absent, emergency_requests |-> "escalated"]

ToolResponse(tool, code, rec) ==
    [endpoint |-> tool, code |-> code, id |-> rec.id,
     status |-> IF tool = "lead_qualifications" \/ code # 200 THEN rec.status
                ELSE ReportedStatus[tool],
     score |-> rec.score, reasons |-> rec.reasons]

NoRecord ==
    [id |-> NoId, tenant_id |-> <<>>, call_session_id |-> Null,
     status |-> Absent, sent_at |-> NoTime, score |-> 0, reasons |-> <<>>]

\* The store operations of a tool handler the store may fail: none, its
\* insert_one, or its update_one (the endpoints that have one).
Faults(tool) ==
    IF tool \in PatchingTools \cup {"notifications"}
    THEN {"none", "insert", "update"} ELSE {"none", "insert"}

\* One tool request: validation, insert_one, then the update_one of the
\* endpoints that have one; any exception of the store is answered with
\* InternalServerError by the handler's `except Exception`.
ToolResult(records, coll, tool, p, second, fault, t) ==
    LET rec == ToolRecord(tool, p, second)
        inserted == [records EXCEPT ![tool] = Append(@, rec)]
        same == [records |-> records, calls |-> coll]
    IN  IF ~ToolAccepts(tool, p)
        THEN same @@ [response |-> ToolResponse(tool, 400, NoRecord)]
        ELSE IF fault = "insert"
        THEN same @@ [response |-> ToolResponse(tool, 500, NoRecord)]
        ELSE IF fault = "update"
        THEN [records |-> inserted, calls |-> coll,
              response |-> ToolResponse(tool, 500, NoRecord)]
        ELSE [records |->
                  IF tool = "notifications"
                  THEN [inserted EXCEPT ![tool] = MarkSent(@, rec.id, t)]
                  ELSE inserted,
              calls |-> IF tool \in PatchingTools
                        THEN BackPatch(coll, tool, rec) ELSE coll,
              response |-> ToolResponse(tool, 200, rec)]

\* ------------------------------------------------ _normalize_event, nested
\* The event as the JSON object it is.  A key that holds an object, an array
\* or a string of several possible shapes is a tagged value: absent key,
\* null, string, object, array.  The scalar keys are strings as elsewhere.
JAbsent == [kind |-> "absent"]
JNull == [kind |-> "null"]
JStr(text) == [kind |-> "str", value |-> text]
JList(items) == [kind |-> "list", items |-> items]

\* An address object {"phone_number": ..., "address": ...}.
JAddr(phone_number, address) ==
    [kind |-> "dict", phone_number |-> phone_number, address |-> address]

\* data.payload, and {} as a payload.
JPayload(id, from, to, errors, cost, media, status) ==
    [kind |-> "dict", id |-> id, from |-> from, to |-> to, errors |-> errors,
     cost |-> cost, media |-> media, status |-> status]

NoPayload ==
    JPayload(Absent, JAbsent, JAbsent, JAbsent, JAbsent, JAbsent, Absent)

\* data, and {} as data.
JData(id, event_type, payload) ==
    [kind |-> "dict", id |-> id, event_type |-> event_type,
     payload |-> payload]

NoData == JData(Absent, Absent, JAbsent)

\* payload.cost, and {} as a cost.
JCost(amount, currency) ==
    [kind |-> "dict", amount |-> amount, currency |-> currency]

NoCost == JCost(Absent, Absent)

\* dict.get(key, default) on a tagged value: the default for an absent key
\* only, null stays null.
GetOr(v, default) == IF v.kind = "absent" THEN default ELSE v

\* `x or default` on a tagged value: the default for absent, null, [] and {}.
OrEmpty(v, default) ==
    IF v.kind \in {"absent", "null"} THEN default
    ELSE IF v.kind = "list" /\ v.items = <<>> THEN default
    ELSE v

\* Lines 190-194: from_addr.
FromAddress(from) ==
    IF from.kind = "dict" THEN Get(Or(from.phone_number, Get(from.address)))
    ELSE IF from.kind = "str" THEN from.value
    ELSE Null

\* Lines 196-205: to_list.
ToList(to) ==
    LET raw_to == GetOr(to, JList(<<>>))
        kept == IF raw_to.kind = "list"
                THEN SelectSeq(raw_to.items,
                               LAMBDA e : e.kind \in {"dict", "str"})
                ELSE <<>>
    IN  IF raw_to.kind = "list"
        THEN [i \in 1..Len(kept) |-> FromAddress(kept[i])]
        ELSE IF raw_to.kind = "str" THEN <<raw_to.value>>
        ELSE <<>>

NoNormalized ==
    [event_id |-> Null, event_type |-> Null, message_id |-> Null,
     from |-> Null, to |-> <<>>, media |-> JList(<<>>),
     errors |-> JList(<<>>), cost |-> NoCost,
     status |-> Null, raw_event |-> JNull]

\* Lines 166-235 on the nested event: whether the call raises, and the record
\* it returns.  None.get(...) raises AttributeError.
normalize_nested_event(evt) ==
    LET data == GetOr(evt.data, NoData)
        payload == IF data.payload.kind \in {"absent", "null"}
                   THEN NoPayload ELSE data.payload
    IN  IF data.kind = "null"
        THEN [raised |-> TRUE, normalized |-> NoNormalized]
        ELSE [raised |-> FALSE,
              normalized |->
                  [event_id |-> Get(data.id),
                   event_type |-> Get(data.event_type),
                   message_id |-> Get(payload.id),
                   from |-> FromAddress(payload.from),
                   to |-> ToList(payload.to),
                   media |-> OrEmpty(payload.media, JList(<<>>)),
                   errors |-> OrEmpty(payload.errors, JList(<<>>)),
                   cost |-> OrEmpty(payload.cost, NoCost),
                   status |-> Get(payload.status),
                   raw_event |-> evt]]

\* ---------------------------------------------------------------- inputs
\* A /call payload: the CallRecord keys the handler and the claims read.
CallPayload(ck, cs, st, dcs, cc, name, phone, street, summary) ==
    [call_key |-> ck, call_session_id |-> cs, call_status |-> st,
     data_collection_status |-> dcs, call_completed |-> cc,
     qualified |-> Absent, lead_status |-> Absent,
     contact_name |-> name, contact_phone_e164 |-> phone,
     service_address_street |-> street, problem_summary |-> summary,
     conversation_log |-> <<>>, notes |-> Absent, reason_codes |-> <<>>,
     availability |-> <<>>]

NoCallPayload ==
    CallPayload(Absent, Absent, Absent, Absent, Absent,
                Absent, Absent, Absent, Absent)

\* Deliveries that differ in how they identify the call and in whether they
\* complete it.
CallPayloads ==
    {CallPayload(ck, cs, st, Absent, cc, Absent, Absent, Absent, Absent) :
        ck \in {Absent, Empty, "A", "B"}, cs \in {Absent, "A"},
        st \in {Absent, "in_progress", "completed"},
        cc \in {Absent, "false"}}

\* call_status, data_collection_status and call_completed of a delivery:
\* not final, and final by each of the three.
Finality ==
    {<<"in_progress", Absent, Absent>>, <<"completed", Absent, Absent>>,
     <<"in_progress", "complete", Absent>>, <<"in_progress", Absent, "true">>}

\* Deliveries for one call that differ in the data they carry.
MergePayloads ==
    {CallPayload("A", Absent, fin[1], fin[2], fin[3], name, phone, street,
                 summary) :
        fin \in Finality,
        name \in {Absent, Empty, "Bob", "Jane"},
        phone \in {Absent, Null, "+15550001111"},
        street \in {Absent, "1 Main St"}, summary \in {Absent, "leak"}}

\* A conversation_log entry.
Entry(timestamp, text) == [timestamp |-> timestamp, text |-> text]

\* Conversation logs: none, one entry, the same timestamp twice (with
\* different content), two timestamps, a later entry alone, and an entry
\* whose text is empty.
Logs ==
    {<<>>, <<Entry("t1", "hello")>>,
     <<Entry("t1", "hello"), Entry("t1", "hi there")>>,
     <<Entry("t1", "hello"), Entry("t2", "my sink leaks")>>,
     <<Entry("t2", "my sink leaks")>>, <<Entry("t2", Empty)>>}

\* Deliveries for one call that carry its conversation so far.
LogPayloads ==
    {[CallPayload("A", Absent, st, Absent, Absent, name, Absent, Absent,
                  Absent) EXCEPT !.conversation_log = log] :
        st \in {"in_progress", "completed"}, name \in {Absent, "Bob"},
        log \in Logs}

\* reason_codes lists: none, one code, a code twice, two codes (one already
\* seen), and a list with an empty item.
ReasonCodeLists ==
    {<<>>, <<"r1">>, <<"r1", "r1">>, <<"r2", "r1">>, <<"r3", Empty>>}

\* availability lists: none, one slot, two other slots, and a list with an
\* empty item.
AvailabilityLists == {<<>>, <<"mon">>, <<"tue", "wed">>, <<"mon", Empty>>}

\* Deliveries for one call that differ in their lists and in a plain scalar.
FieldPayloads ==
    {[CallPayload("A", Absent, "in_progress", Absent, Absent, Absent, Absent,
                  Absent, Absent)
         EXCEPT !.reason_codes = codes, !.availability = slots,
                !.notes = notes] :
        codes \in ReasonCodeLists, slots \in AvailabilityLists,
        notes \in {Absent, Null, Empty, "n1", "n2"}}

\* Two deliveries for the same call, as two connections carry them.
ConcurrentPayloads ==
    {CallPayload("A", Absent, st, Absent, Absent, Absent, Absent, Absent,
                 Absent) : st \in {"in_progress", "completed"}}

\* Deliveries for the same call that differ in their reason_codes.
ReasonPayloads ==
    {[CallPayload("A", Absent, "in_progress", Absent, Absent, Absent, Absent,
                  Absent, Absent)
         EXCEPT !.reason_codes = codes] :
        codes \in {<<>>, <<"r1">>, <<"r2">>, <<"r3">>, <<"r2", "r1">>}}

\* Where a /voice payload carries its call_session_id: nowhere, under
\* telnyx, under raw_start_frame.start, or under both (with two values).
VoiceSessionIds ==
    {<<Absent, Absent>>, <<"A", Absent>>, <<Absent, "A">>, <<"B", "A">>}

\* The same for its stream_id.
VoiceStreamIds == {<<Absent, Absent>>, <<"B", Absent>>, <<Absent, "B">>}

VoicePayloads ==
    {[event_type |-> "call_event", call_status |-> st,
      telnyx_call_session_id |-> cs[1], start_call_session_id |-> cs[2],
      telnyx_stream_id |-> sid[1], start_stream_id |-> sid[2],
      call_control_id |-> cc, call_completed |-> done, call_key |-> ck,
      last_status |-> Absent, contact_name |-> Absent,
      contact_phone_e164 |-> Absent] :
        st \in {"initiated", "in_progress"}, cs \in VoiceSessionIds,
        sid \in VoiceStreamIds, cc \in {Absent, "A"},
        done \in {Absent, "false"}, ck \in {Absent, "B"}}

\* /voice deliveries for one call, with the keys a bot sends along: a contact
\* object (with or without its name) and a last_status key.
VoiceMergePayloads ==
    {[event_type |-> type, call_status |-> st,
      telnyx_call_session_id |-> "A", start_call_session_id |-> Absent,
      telnyx_stream_id |-> Absent, start_stream_id |-> Absent,
      call_control_id |-> Absent, call_completed |-> Absent,
      call_key |-> Absent, last_status |-> last,
      contact_name |-> name, contact_phone_e164 |-> phone] :
        type \in {Absent, "call_event"},
        st \in {"initiated", "in_progress", "completed"},
        last \in {Absent, "stale"}, name \in {Absent, "Ann"},
        phone \in {Absent, "+15550001"}}

StatusPayloads ==
    [CallSid : {Absent, "A", "B"},
     call_control_id : {Absent, "A"},
     event_type : {Absent, "call.transcription"},
     CallStatus : {Absent, "ringing"},
     CallDuration : {Absent}, From : {Absent}, transcript : {Absent}]

\* /status deliveries for one call: status events and transcriptions, with
\* and without the status fields.
StatusEventPayloads ==
    [CallSid : {"A"},
     call_control_id : {Absent},
     event_type : {"call.hangup", "call.transcription"},
     CallStatus : {Absent, "ringing"},
     CallDuration : {Absent, "42"}, From : {Absent, "+15550001"},
     transcript : {Absent, "hello"}]

\* A point in the life of a message, as its event reports it: event type,
\* occurred_at, payload.status, payload.sent_at and payload.completed_at.
Lifecycle(type, occurred_at, status, sent_at, completed_at) ==
    [event_type |-> type, occurred_at |-> occurred_at, status |-> status,
     sent_at |-> sent_at, completed_at |-> completed_at]

NoLifecycle == Lifecycle(Absent, Absent, Absent, Absent, Absent)

MessageSent == Lifecycle("message.sent", "09:00", "sent", "09:00", Absent)

MessageFinalized ==
    Lifecycle("message.finalized", "09:05", "delivered", "09:00", "09:05")

SmsLifecycle == {MessageSent, MessageFinalized}

\* Webhook bodies: the carrier's event envelope (data.id, data.event_type,
\* data.occurred_at, data.payload.id, .status, .sent_at, .completed_at).
SmsEvent(id, message_id, l) ==
    [data_id |-> id, data_event_type |-> l.event_type,
     data_occurred_at |-> l.occurred_at, payload_id |-> message_id,
     payload_status |-> l.status, payload_sent_at |-> l.sent_at,
     payload_completed_at |-> l.completed_at]

SmsEvents ==
    {SmsEvent(id, m, l) :
        id \in {Absent, "e1", "e2"}, m \in {Absent, "m1"}, l \in SmsLifecycle}

\* The telnyx-signature-ed25519 header: none, the carrier's signature over
\* this timestamp and body, or that signature with a byte changed (a value no
\* key of the carrier made).
V2Signatures(ts, body) ==
    {NoSignature, Sign("telnyx-sk", <<ts, "|", body>>),
     Sign("corrupt", <<ts, "|", body>>)}

\* The x-telnyx-signature header: none, the HMAC under the shared secret,
\* an HMAC under another secret, or an HMAC under the empty secret.
V1Signatures(ts, body) ==
    {[t |-> Absent, v1 |-> NoSignature],
     [t |-> ts, v1 |-> Sign("whsec", <<ts, ".", body>>)],
     [t |-> ts, v1 |-> Sign("guess", <<ts, ".", body>>)],
     [t |-> ts, v1 |-> Sign(Empty, <<ts, ".", body>>)]}

SmsRequestsFor(b) ==
    {[body |-> b, headers |-> [v2_sig |-> s2, v2_ts |-> "ts", v1_sig |-> s1]] :
        s2 \in V2Signatures("ts", b), s1 \in V1Signatures("ts", b)}

SmsRequests == UNION {SmsRequestsFor(b) : b \in SmsEvents}

\* Verified deliveries only, as two connections carry them.
ConcurrentSmsRequests ==
    {[body |-> b,
      headers |-> [v2_sig |-> Sign("telnyx-sk", <<"ts", "|", b>>),
                   v2_ts |-> "ts",
                   v1_sig |-> [t |-> Absent, v1 |-> NoSignature]]] :
        b \in {SmsEvent(id, m, MessageSent) :
                  id \in {Absent, "e1", "e2"}, m \in {Absent, "m1", "m2"}}}

\* Deliveries sent while the store comes and goes: /voice and /call for call
\* A, /status with and without a CallSid.
OutageVoicePayloads ==
    {p \in VoiceMergePayloads :
        /\ p.event_type = Absent /\ p.last_status = Absent
        /\ p.contact_name = Absent /\ p.contact_phone_e164 = Absent}

OutageStatusPayloads ==
    {p \in StatusPayloads :
        /\ p.call_control_id = Absent /\ p.event_type = Absent
        /\ p.CallStatus = "ringing"}

\* Tenants whose ids share their first 8 characters.
AcmeEast == <<"a", "c", "m", "e", "-", "e", "a", "s", "t">>
AcmeEasy == <<"a", "c", "m", "e", "-", "e", "a", "s", "y">>

ToolPayload(tenant_id, call_session_id, details, customer_data) ==
    [tenant_id |-> tenant_id, call_session_id |-> call_session_id,
     details |-> details, customer_data |-> customer_data]

CustomerData(name, phone, street, zip, area, summary, category, urgency, slots) ==
    [contact_name |-> name, contact_phone_e164 |-> phone,
     service_address_street |-> street, service_address_zip |-> zip,
     in_service_area |-> area, problem_summary |-> summary,
     problem_category |-> category, problem_urgency |-> urgency,
     availability |-> slots]

\* A lead with every field the scoring reads.
FullCustomerData ==
    CustomerData("Ann", "+15550001", "1 Main St", "94000", "true",
                 "sparking outlet", "electrical", "urgent", <<"mon-am">>)

\* Requests to a tool: complete ones for two tenants, and ones lacking the
\* call session, the tenant, or the endpoint's own fields.
ToolPayloads ==
    {ToolPayload(AcmeEast, "A", "given", FullCustomerData),
     ToolPayload(AcmeEasy, "A", "given", FullCustomerData),
     ToolPayload(AcmeEast, Absent, "given", FullCustomerData),
     ToolPayload(<<>>, "A", "given", FullCustomerData),
     ToolPayload(AcmeEast, "A", Absent, NoCustomerData)}

\* Every customer_data the scoring tells apart.
CustomerDataInputs ==
    {CustomerData(name, phone, street, zip, area, summary, category, urgency,
                  availability) :
        name \in {Absent, "Ann"}, phone \in {Absent, Empty, "+15550001"},
        street \in {Absent, "1 Main St"}, zip \in {Absent, "94000"},
        area \in {Absent, "false", "true"},
        summary \in {Absent, "sparking outlet"},
        category \in {Absent, "electrical"},
        urgency \in {Absent, "normal", "urgent", "emergency"},
        availability \in {<<>>, <<"mon-am">>}}

\* Leads around the thresholds of the scoring (100, 80, 90, 70, 65, 50, 45,
\* 85, 75, 35, 10 points, and none).
QualificationLeads ==
    {FullCustomerData,
     [FullCustomerData EXCEPT !.contact_phone_e164 = Absent],
     [FullCustomerData EXCEPT !.contact_name = Null],
     [FullCustomerData EXCEPT !.problem_category = Absent,
                              !.problem_urgency = "normal",
                              !.availability = <<>>],
     [FullCustomerData EXCEPT !.service_address_zip = Absent,
                              !.problem_urgency = Absent,
                              !.availability = <<>>],
     [FullCustomerData EXCEPT !.contact_phone_e164 = Empty,
                              !.problem_category = Absent,
                              !.problem_urgency = "normal",
                              !.availability = <<>>],
     [FullCustomerData EXCEPT !.contact_phone_e164 = Absent,
                              !.service_address_zip = Absent,
                              !.problem_urgency = Absent,
                              !.availability = <<>>],
     [FullCustomerData EXCEPT !.service_address_street = Absent],
     [FullCustomerData EXCEPT !.in_service_area = "false",
                              !.service_address_zip = Absent],
     [NoCustomerData EXCEPT !.contact_phone_e164 = "+15550001",
                            !.problem_summary = "sparking outlet"],
     [NoCustomerData EXCEPT !.contact_name = "Ann"],
     NoCustomerData}

QualificationPayloads ==
    {ToolPayload(AcmeEast, "A", Absent, cd) : cd \in QualificationLeads}

\* The /call delivery that creates the call the tool requests refer to.
ToolCallPayloads ==
    {CallPayload("A", Absent, "in_progress", Absent, Absent,
                 Absent, Absent, Absent, Absent)}

\* The shapes payload.from comes in.
FromShapes ==
    {JAbsent, JNull, JStr("+15550001"), JAddr("+15550001", Absent),
     JAddr(Absent, "ALPHA"), JAddr(Null, Null),
     JList(<<JStr("+15550001")>>), JList(<<JAddr("+15550001", Absent)>>)}

\* The shapes payload.to comes in.
ToShapes ==
    {JAbsent, JNull, JStr("+15550002"), JAddr("+15550002", Absent),
     JAddr(Absent, "BRAVO"), JList(<<>>), JList(<<JStr("+15550002")>>),
     JList(<<JAddr("+15550002", Absent), JStr("+15550003")>>),
     JList(<<JAddr(Absent, "BRAVO")>>)}

\* errors, cost and media of a payload: all absent, all null, all given.
PayloadExtras ==
    {[errors |-> JAbsent, cost |-> JAbsent, media |-> JAbsent],
     [errors |-> JNull, cost |-> JNull, media |-> JNull],
     [errors |-> JList(<<"40300">>), cost |-> JCost("0.004", "USD"),
      media |-> JList(<<"https://m/1">>)]}

\* Events as the carrier may send them: with a payload of every shape, and
\* with data or data.payload absent or null.
NestedEvents ==
         {[data |-> JData("e1", "message.sent",
                          JPayload("m1", from, to, x.errors, x.cost, x.media,
                                   "sent"))] :
             from \in FromShapes, to \in ToShapes, x \in PayloadExtras}
    \cup {[data |-> JData("e1", "message.sent", pl)] : pl \in {JAbsent, JNull}}
    \cup {[data |-> d] : d \in {JAbsent, JNull}}

Connections == {1, 2}

NoLocal ==
    [payload |-> NoCallPayload,
     existing |-> [found |-> FALSE, doc |-> NoCallDoc], t |-> NoTime]

\* ---------------------------------------------------------------- actions
NoSmsLocal ==
    [request |-> [body |-> SmsEvent(Absent, Absent, NoLifecycle),
                  headers |-> [v2_sig |-> NoSignature, v2_ts |-> Absent,
                               v1_sig |-> [t |-> Absent, v1 |-> NoSignature]]],
     method |-> "none", t |-> NoTime, found |-> 0]

\* The process started with the given environment on an empty database.
InitEnv(public_key, secret) ==
    /\ pipecat_database = "None"
    /\ telnyx_database = "None"
    /\ index_attempts = [pipecat |-> 0, telnyx |-> 0]
    /\ calls = <<>>
    /\ calls_unique_index = FALSE
    /\ pipecat_INDEX_READY = FALSE
    /\ now = 0
    /\ request = [endpoint |-> "none", payload |-> NoCallPayload]
    /\ response = NoResponse
    /\ pc = [q \in Connections |-> "idle"]
    /\ local = [q \in Connections |-> NoLocal]
    /\ telnyx_webhook_events = <<>>
    /\ telnyx_messages = <<>>
    /\ telnyx_unique_index = [event_id |-> FALSE, message_id |-> FALSE]
    /\ telnyx_INDEX_READY = FALSE
    /\ TELNYX_PUBLIC_KEY = public_key
    /\ TELNYX_WEBHOOK_SECRET = secret
    /\ sms_pc = [q \in Connections |-> "idle"]
    /\ sms_local = [q \in Connections |-> NoSmsLocal]
    /\ tool_records = [tool \in Tools |-> <<>>]
    /\ clock = 0

\* Both verification secrets configured, the store within reach.
Init == InitEnv("telnyx-pk", "whsec") /\ store_reachable = TRUE

\* Any configuration of the two secrets (lines 42-43: unset reads as "").
InitAnyEnv ==
    \E public_key \in {Empty, "telnyx-pk"}, secret \in {Empty, "whsec"} :
        InitEnv(public_key, secret) /\ store_reachable = TRUE

\* The store within reach or not when the process starts.
InitAnyStore == InitEnv("telnyx-pk", "whsec") /\ store_reachable \in BOOLEAN

\* POST /webhooks/pipecat/call, handled without another request in between.
handle_call_webhook(p) ==
    /\ now < MaxRequests
    /\ \A q \in Connections : pc[q] = "idle"
    /\ LET g == get_database(pipecat_database, store_reachable)
           r == Served("call", calls, g.result, store_reachable,
                       CallResult(calls, calls_unique_index, p, now + 1))
       IN  /\ pipecat_database' = g.database
           /\ calls' = r.calls
           /\ response' = r.response
    /\ now' = now + 1
    /\ request' = [endpoint |-> "call", payload |-> p]
    /\ UNCHANGED <<calls_unique_index, pipecat_INDEX_READY, pc, local,
                   sms_vars, tool_vars, store_reachable, telnyx_database,
                   index_attempts>>

\* POST /webhooks/pipecat/voice.
handle_voice_webhook(p) ==
    /\ now < MaxRequests
    /\ LET g == get_database(pipecat_database, store_reachable)
           e == Ensured(g.result, store_reachable,
                        [index |-> calls_unique_index,
                         ready |-> pipecat_INDEX_READY],
                        ensure_index_once(calls, calls_unique_index,
                                          pipecat_INDEX_READY))
           r == Served("voice", calls, g.result, store_reachable,
                       VoiceResult(calls, p, now + 1))
       IN  /\ pipecat_database' = g.database
           /\ calls_unique_index' = e.index
           /\ pipecat_INDEX_READY' = e.ready
           /\ index_attempts' =
                  [index_attempts EXCEPT !.pipecat = @ + e.attempts]
           /\ calls' = r.calls
           /\ response' = r.response
    /\ now' = now + 1
    /\ request' = [endpoint |-> "voice", payload |-> p]
    /\ UNCHANGED <<pc, local, sms_vars, tool_vars, store_reachable,
                   telnyx_database>>

\* POST /webhooks/pipecat/voice on connection q, up to the test of
\* _INDEX_READY in ensure_index_once (lines 181-199, 100-104).  Without a database
\* the request ends here with its 503.
VoiceReceive(q, p) ==
    /\ now < MaxRequests
    /\ pc[q] = "idle"
    /\ LET g == get_database(pipecat_database, store_reachable)
       IN  /\ pipecat_database' = g.database
           /\ IF g.result = "None"
              THEN /\ response' = Response("voice", 503, "none", Absent, FALSE)
                   /\ request' = [endpoint |-> "voice", payload |-> p]
                   /\ UNCHANGED <<pc, local>>
              ELSE /\ pc' = [pc EXCEPT ![q] = IF pipecat_INDEX_READY
                                              THEN "upsert" ELSE "create"]
                   /\ local' = [local EXCEPT ![q] =
                          [payload |-> p, existing |-> NoLocal.existing,
                           t |-> now + 1]]
                   /\ UNCHANGED <<request, response>>
    /\ now' = now + 1
    /\ UNCHANGED <<calls, calls_unique_index, pipecat_INDEX_READY, sms_vars,
                   tool_vars, store_reachable, telnyx_database,
                   index_attempts>>

\* That request's create_index and, when it returned, the assignment of
\* the flag (lines 106-111); the flag it tested was false, whatever it is
\* by now.
VoiceCreateIndex(q) ==
    /\ pc[q] = "create"
    /\ LET e == Ensured("db", store_reachable,
                        [index |-> calls_unique_index, ready |-> FALSE],
                        ensure_index_once(calls, calls_unique_index, FALSE))
       IN  /\ calls_unique_index' = e.index
           /\ pipecat_INDEX_READY' = (pipecat_INDEX_READY \/ e.ready)
           /\ index_attempts' =
                  [index_attempts EXCEPT !.pipecat = @ + e.attempts]
    /\ pc' = [pc EXCEPT ![q] = "upsert"]
    /\ UNCHANGED <<calls, local, sms_vars, tool_vars, store_reachable,
                   pipecat_database, telnyx_database, now, request, response>>

\* The rest of that request: its upsert and the response (lines 201-287).
VoiceWrite(q) ==
    /\ pc[q] = "upsert"
    /\ LET r == Served("voice", calls, "db", store_reachable,
                       VoiceResult(calls, local[q].payload, local[q].t))
       IN  calls' = r.calls /\ response' = r.response
    /\ request' = [endpoint |-> "voice", payload |-> local[q].payload]
    /\ pc' = [pc EXCEPT ![q] = "idle"]
    /\ local' = [local EXCEPT ![q] = NoLocal]
    /\ UNCHANGED <<calls_unique_index, pipecat_INDEX_READY, now, sms_vars,
                   tool_vars, store_vars>>

\* POST /webhooks/pipecat/status.
handle_status_webhook(p) ==
    /\ now < MaxRequests
    /\ LET g == get_database(pipecat_database, store_reachable)
           r == Served("status", calls, g.result, store_reachable,
                       StatusResult(calls, calls_unique_index, p, now + 1))
       IN  /\ pipecat_database' = g.database
           /\ calls' = r.calls
           /\ response' = r.response
    /\ now' = now + 1
    /\ request' = [endpoint |-> "status", payload |-> p]
    /\ UNCHANGED <<calls_unique_index, pipecat_INDEX_READY, pc, local,
                   sms_vars, tool_vars, store_reachable, telnyx_database,
                   index_attempts>>

\* POST /webhooks/pipecat/call on connection q, up to and including its
\* find_one (lines 296-355).
CallFindOne(q, p) ==
    /\ now < MaxRequests
    /\ pc[q] = "idle"
    /\ Truthy(CallIdentifier(p))
    /\ pc' = [pc EXCEPT ![q] = "found"]
    /\ local' = [local EXCEPT ![q] =
           [payload |-> p,
            existing |-> FindExisting(calls, CallIdentifier(p)),
            t |-> now + 1]]
    /\ now' = now + 1
    /\ store_reachable
    /\ pipecat_database' = "db"
    /\ UNCHANGED <<calls, calls_unique_index, pipecat_INDEX_READY, request,
                   response, sms_vars, tool_vars, store_reachable,
                   telnyx_database, index_attempts>>

\* The rest of that handler: its update_one or insert_one and the response
\* (lines 357-500).
CallWriteBack(q) ==
    /\ pc[q] = "found"
    /\ LET r == CallWrite(calls, calls_unique_index, local[q].existing,
                          local[q].payload, local[q].t)
       IN  calls' = r.calls /\ response' = r.response
    /\ request' = [endpoint |-> "call", payload |-> local[q].payload]
    /\ pc' = [pc EXCEPT ![q] = "idle"]
    /\ local' = [local EXCEPT ![q] = NoLocal]
    /\ UNCHANGED <<calls_unique_index, pipecat_INDEX_READY, now, sms_vars,
                   tool_vars, store_vars>>

\* Lines 325-384 with nothing in between: the event upsert, then the message
\* upsert, each for a truthy id only.
SmsStore(evs, msgs, idx, n, method, t) ==
    LET e == IF Truthy(n.event_id)
             THEN (CHOOSE o \in EventWrite(evs, idx, EventFind(evs, n.event_id),
                                           n, method, t) : ~o.raised).coll
             ELSE evs
        m == IF Truthy(n.message_id)
             THEN (CHOOSE o \in MessageWrite(msgs, idx,
                                             MessageFind(msgs, n.message_id),
                                             n, method, t) : ~o.raised).coll
             ELSE msgs
    IN  [events |-> e, messages |-> m]

\* POST /webhooks/telnyx/sms, handled without another request in between
\* (lines 251-403).
telnyx_sms_webhook(req) ==
    /\ now < MaxRequests
    /\ \A q \in Connections : sms_pc[q] = "idle"
    /\ LET v == VerifyRequest(req, TELNYX_PUBLIC_KEY, TELNYX_WEBHOOK_SECRET)
           n == normalize_event(req.body)
           e == ensure_indices_once(telnyx_webhook_events, telnyx_messages,
                                    telnyx_unique_index, telnyx_INDEX_READY)
           st == SmsStore(telnyx_webhook_events, telnyx_messages, e.index,
                          n, v.method, now + 1)
           g == get_database(telnyx_database, store_reachable)
           x == Ensured(g.result, store_reachable,
                        [index |-> telnyx_unique_index,
                         ready |-> telnyx_INDEX_READY], e)
       IN  IF ~v.verified
           THEN /\ response' = SmsResponse(401, n, v.method)
                /\ UNCHANGED <<telnyx_webhook_events, telnyx_messages,
                               telnyx_unique_index, telnyx_INDEX_READY,
                               telnyx_database, index_attempts>>
           ELSE /\ telnyx_database' = g.database
                /\ telnyx_unique_index' = x.index
                /\ telnyx_INDEX_READY' = x.ready
                /\ index_attempts' =
                       [index_attempts EXCEPT !.telnyx = @ + x.attempts]
                /\ IF g.result = "None" \/ ~store_reachable
                   THEN /\ response' = SmsResponse(
                               IF g.result = "None" THEN 503
                               ELSE IF Truthy(n.event_id)
                                       \/ Truthy(n.message_id) THEN 500
                               ELSE 200, n, v.method)
                        /\ UNCHANGED <<telnyx_webhook_events,
                                       telnyx_messages>>
                   ELSE /\ response' = SmsResponse(200, n, v.method)
                        /\ telnyx_webhook_events' = st.events
                        /\ telnyx_messages' = st.messages
    /\ now' = now + 1
    /\ request' = [endpoint |-> "sms", payload |-> req]
    /\ UNCHANGED <<call_vars, tool_vars, TELNYX_PUBLIC_KEY, TELNYX_WEBHOOK_SECRET,
                   sms_pc, sms_local, store_reachable, pipecat_database>>

\* Where a verified delivery goes after its event upsert.
AfterEvent(n) == IF Truthy(n.message_id) THEN "upsert_message" ELSE "idle"

\* /sms on connection q up to its first store operation: signature check,
\* ensure_indices_once, normalisation, now_utc (lines 259-323).
SmsReceive(q, req) ==
    /\ now < MaxRequests
    /\ sms_pc[q] = "idle"
    /\ LET v == VerifyRequest(req, TELNYX_PUBLIC_KEY, TELNYX_WEBHOOK_SECRET)
           n == normalize_event(req.body)
           e == ensure_indices_once(telnyx_webhook_events, telnyx_messages,
                                    telnyx_unique_index, telnyx_INDEX_READY)
           next == IF Truthy(n.event_id) THEN "upsert_event" ELSE AfterEvent(n)
       IN  /\ v.verified
           /\ store_reachable
           /\ telnyx_database' = "db"
           /\ telnyx_unique_index' = e.index
           /\ telnyx_INDEX_READY' = e.ready
           /\ index_attempts' =
                  [index_attempts EXCEPT !.telnyx =
                      IF telnyx_INDEX_READY THEN @ ELSE @ + 1]
           /\ sms_pc' = [sms_pc EXCEPT ![q] = next]
           /\ sms_local' = [sms_local EXCEPT ![q] =
                  [request |-> req, method |-> v.method, t |-> now + 1,
                   found |-> 0]]
           /\ IF next = "idle"
              THEN /\ response' = SmsResponse(200, n, v.method)
                   /\ request' = [endpoint |-> "sms", payload |-> req]
              ELSE UNCHANGED <<request, response>>
    /\ now' = now + 1
    /\ UNCHANGED <<call_vars, tool_vars, telnyx_webhook_events, telnyx_messages,
                   TELNYX_PUBLIC_KEY, TELNYX_WEBHOOK_SECRET, store_reachable,
                   pipecat_database>>

\* The store evaluates the filter of the event upsert (lines 327-328).
SmsEventFind(q) ==
    /\ sms_pc[q] = "upsert_event"
    /\ sms_pc' = [sms_pc EXCEPT ![q] = "write_event"]
    /\ sms_local' = [sms_local EXCEPT ![q].found =
           EventFind(telnyx_webhook_events,
                     normalize_event(sms_local[q].request.body).event_id)]
    /\ UNCHANGED <<call_vars, tool_vars, telnyx_webhook_events, telnyx_messages,
                   telnyx_unique_index, telnyx_INDEX_READY, TELNYX_PUBLIC_KEY,
                   TELNYX_WEBHOOK_SECRET, now, request, response, store_vars>>

\* The store applies the event upsert (lines 329-343); DuplicateKeyError
\* ends the request with a 500 (lines 400-403).
SmsEventWrite(q) ==
    /\ sms_pc[q] = "write_event"
    /\ LET l == sms_local[q]
           n == normalize_event(l.request.body)
       IN  \E o \in EventWrite(telnyx_webhook_events, telnyx_unique_index,
                               l.found, n, l.method, l.t) :
              /\ telnyx_webhook_events' = o.coll
              /\ sms_pc' = [sms_pc EXCEPT ![q] =
                     IF o.raised THEN "idle" ELSE AfterEvent(n)]
              /\ IF o.raised \/ AfterEvent(n) = "idle"
                 THEN /\ response' = SmsResponse(IF o.raised THEN 500 ELSE 200,
                                                 n, l.method)
                      /\ request' = [endpoint |-> "sms", payload |-> l.request]
                      /\ sms_local' = [sms_local EXCEPT ![q] = NoSmsLocal]
                 ELSE UNCHANGED <<request, response, sms_local>>
    /\ UNCHANGED <<call_vars, tool_vars, telnyx_messages, telnyx_unique_index,
                   telnyx_INDEX_READY, TELNYX_PUBLIC_KEY, TELNYX_WEBHOOK_SECRET,
                   now, store_vars>>

\* The store evaluates the filter of the message upsert (lines 380-381).
SmsMessageFind(q) ==
    /\ sms_pc[q] = "upsert_message"
    /\ sms_pc' = [sms_pc EXCEPT ![q] = "write_message"]
    /\ sms_local' = [sms_local EXCEPT ![q].found =
           MessageFind(telnyx_messages,
                       normalize_event(sms_local[q].request.body).message_id)]
    /\ UNCHANGED <<call_vars, tool_vars, telnyx_webhook_events, telnyx_messages,
                   telnyx_unique_index, telnyx_INDEX_READY, TELNYX_PUBLIC_KEY,
                   TELNYX_WEBHOOK_SECRET, now, request, response, store_vars>>

\* The store applies the message upsert (lines 382-384) and the handler
\* responds (lines 386-403).
SmsMessageWrite(q) ==
    /\ sms_pc[q] = "write_message"
    /\ LET l == sms_local[q]
           n == normalize_event(l.request.body)
       IN  \E o \in MessageWrite(telnyx_messages, telnyx_unique_index,
                                 l.found, n, l.method, l.t) :
              /\ telnyx_messages' = o.coll
              /\ response' = SmsResponse(IF o.raised THEN 500 ELSE 200,
                                         n, l.method)
              /\ request' = [endpoint |-> "sms", payload |-> l.request]
    /\ sms_pc' = [sms_pc EXCEPT ![q] = "idle"]
    /\ sms_local' = [sms_local EXCEPT ![q] = NoSmsLocal]
    /\ UNCHANGED <<call_vars, tool_vars, telnyx_webhook_events, telnyx_unique_index,
                   telnyx_INDEX_READY, TELNYX_PUBLIC_KEY, TELNYX_WEBHOOK_SECRET,
                   now, store_vars>>

\* A request to one of the tool endpoints.  The handler reads the clock
\* when it builds the id; the clock may have reached the next second since
\* the request before.
ToolRequest(tool, p) ==
    /\ now < MaxRequests
    /\ \E second \in {clock, clock + 1}, fault \in Faults(tool) :
          LET r == ToolResult(tool_records, calls, tool, p, second, fault,
                              now + 1)
          IN  /\ tool_records' = r.records
              /\ calls' = r.calls
              /\ response' = r.response
              /\ clock' = second
    /\ now' = now + 1
    /\ request' = [endpoint |-> tool, payload |-> p]
    /\ UNCHANGED <<calls_unique_index, pipecat_INDEX_READY, pc, local,
                   sms_vars, store_vars>>

\* POST /webhooks/tools/appointments.
handle_appointment_tool(p) == ToolRequest("appointments", p)

\* POST /webhooks/tools/notifications.
handle_notification_tool(p) == ToolRequest("notifications", p)

\* POST /webhooks/tools/qualification.
handle_qualification_tool(p) == ToolRequest("lead_qualifications", p)

\* POST /webhooks/tools/availability.
handle_availability_tool(p) == ToolRequest("availability_checks", p)

\* POST /webhooks/tools/tickets.
handle_service_ticket_tool(p) == ToolRequest("service_tickets", p)

\* POST /webhooks/tools/pricing.
handle_pricing_tool(p) == ToolRequest("pricing_requests", p)

\* POST /webhooks/tools/emergency.
handle_emergency_tool(p) == ToolRequest("emergency_requests", p)

\* The MongoDB server goes out of reach, or comes back.
StoreChanges ==
    /\ store_reachable' = ~store_reachable
    /\ UNCHANGED <<call_vars, sms_vars, tool_vars, pipecat_database,
                   telnyx_database, index_attempts, now, request, response>>

\* _normalize_event called on an event (line 308 of the /sms handler).
normalize_event_call(evt) ==
    /\ now < MaxRequests
    /\ LET r == normalize_nested_event(evt)
       IN  response' = [endpoint |-> "normalize", raised |-> r.raised,
                        normalized |-> r.normalized]
    /\ now' = now + 1
    /\ request' = [endpoint |-> "normalize", payload |-> evt]
    /\ UNCHANGED <<call_vars, sms_vars, tool_vars, store_vars>>

\* ---------------------------------------------------------- specifications
\* The three call webhooks, deliveries one after another.
Next ==
    \/ \E p \in CallPayloads : handle_call_webhook(p)
    \/ \E p \in VoicePayloads : handle_voice_webhook(p)
    \/ \E p \in StatusPayloads : handle_status_webhook(p)

Spec == Init /\ [][Next]_vars

\* /call deliveries for one call, one after another.
NextMerge == \E p \in MergePayloads : handle_call_webhook(p)

SpecMerge == Init /\ [][NextMerge]_vars

\* /call deliveries for one call with its conversation log.
NextLog == \E p \in LogPayloads : handle_call_webhook(p)

SpecLog == Init /\ [][NextLog]_vars

\* /call deliveries for one call with its lists and scalars.
NextFields == \E p \in FieldPayloads : handle_call_webhook(p)

SpecFields == Init /\ [][NextFields]_vars

\* /status deliveries for one call, one after another.
NextStatus == \E p \in StatusEventPayloads : handle_status_webhook(p)

SpecStatus == Init /\ [][NextStatus]_vars

\* /voice deliveries for one call, one after another.
NextVoice == \E p \in VoiceMergePayloads : handle_voice_webhook(p)

SpecVoice == Init /\ [][NextVoice]_vars

\* Deliveries to the four webhooks, one after another, while the store
\* comes and goes.
NextOutage ==
    \/ \E p \in OutageVoicePayloads : handle_voice_webhook(p)
    \/ \E p \in ConcurrentPayloads : handle_call_webhook(p)
    \/ \E p \in OutageStatusPayloads : handle_status_webhook(p)
    \/ \E req \in ConcurrentSmsRequests : telnyx_sms_webhook(req)
    \/ StoreChanges

SpecOutage == InitAnyStore /\ [][NextOutage]_vars

\* /voice deliveries on two connections, the steps of their index guards
\* and upserts interleaved, and /sms deliveries, while the store comes and
\* goes.
NextIndex ==
    \/ \E q \in Connections, p \in OutageVoicePayloads : VoiceReceive(q, p)
    \/ \E q \in Connections : VoiceCreateIndex(q)
    \/ \E q \in Connections : VoiceWrite(q)
    \/ \E req \in ConcurrentSmsRequests : telnyx_sms_webhook(req)
    \/ StoreChanges

SpecIndex == InitAnyStore /\ [][NextIndex]_vars

\* /call deliveries on two connections, their find_one and write steps
\* interleaved; a /voice delivery may have created the index before.
NextCallConc ==
    \/ \E q \in Connections, p \in ConcurrentPayloads : CallFindOne(q, p)
    \/ \E q \in Connections : CallWriteBack(q)
    \/ \E p \in VoicePayloads : handle_voice_webhook(p)

SpecCallConc == Init /\ [][NextCallConc]_vars

\* /call deliveries with reason_codes for one call on two connections,
\* their find_one and write steps interleaved.
NextReasonConc ==
    \/ \E q \in Connections, p \in ReasonPayloads : CallFindOne(q, p)
    \/ \E q \in Connections : CallWriteBack(q)

SpecReasonConc == Init /\ [][NextReasonConc]_vars

\* /sms deliveries one after another, under any configuration.
NextSms == \E req \in SmsRequests : telnyx_sms_webhook(req)

SpecSms == InitAnyEnv /\ [][NextSms]_vars

\* Verified /sms deliveries on two connections, their store operations
\* interleaved.
NextSmsConc ==
    \/ \E q \in Connections, req \in ConcurrentSmsRequests : SmsReceive(q, req)
    \/ \E q \in Connections : SmsEventFind(q)
    \/ \E q \in Connections : SmsEventWrite(q)
    \/ \E q \in Connections : SmsMessageFind(q)
    \/ \E q \in Connections : SmsMessageWrite(q)

SpecSmsConc == Init /\ [][NextSmsConc]_vars

\* Requests to the seven tool endpoints, one after another, for a call that
\* a /call delivery may have created.
NextTools ==
    \/ \E p \in ToolPayloads : handle_appointment_tool(p)
    \/ \E p \in ToolPayloads : handle_notification_tool(p)
    \/ \E p \in ToolPayloads : handle_qualification_tool(p)
    \/ \E p \in ToolPayloads : handle_availability_tool(p)
    \/ \E p \in ToolPayloads : handle_service_ticket_tool(p)
    \/ \E p \in ToolPayloads : handle_pricing_tool(p)
    \/ \E p \in ToolPayloads : handle_emergency_tool(p)
    \/ \E p \in ToolCallPayloads : handle_call_webhook(p)

SpecTools == Init /\ [][NextTools]_vars

\* Qualification requests for one call, one after another.
NextQualification ==
    \E p \in QualificationPayloads : handle_qualification_tool(p)

SpecQualification == Init /\ [][NextQualification]_vars

\* _normalize_event on events of every shape.
NextNormalize == \E evt \in NestedEvents : normalize_event_call(evt)

SpecNormalize == Init /\ [][NextNormalize]_vars

\* ------------------------------------------------------------------ claims
\* The positions of the documents of telnyx_webhook_events with event id e.
EventDocs(coll, e) == {i \in 1..Len(coll) : coll[i].event_id = e}

\* The step is a verified /sms delivery carrying a truthy event id.
VerifiedEventDelivery ==
    /\ now' # now
    /\ request'.endpoint = "sms"
    /\ response'.code = 200
    /\ request'.payload.body.data_id # Absent

\* C1: after every verified /sms delivery carrying event id e the collection
\* holds exactly one document with that event id, whose last_seen_at is the
\* time of this delivery and whose first_seen_at is the time of this
\* delivery when it is the first for e and unchanged otherwise; and no step
\* removes an event document or changes its event_id or first_seen_at.
C1_IdempotentEventUpsert ==
    [][/\ Len(telnyx_webhook_events') >= Len(telnyx_webhook_events)
       /\ \A i \in 1..Len(telnyx_webhook_events) :
             /\ telnyx_webhook_events'[i].event_id = telnyx_webhook_events[i].event_id
             /\ telnyx_webhook_events'[i].first_seen_at =
                    telnyx_webhook_events[i].first_seen_at
       /\ VerifiedEventDelivery =>
             LET e == request'.payload.body.data_id
                 before == EventDocs(telnyx_webhook_events, e)
                 after == EventDocs(telnyx_webhook_events', e)
             IN  /\ Cardinality(after) = 1
                 /\ \A i \in after :
                       /\ telnyx_webhook_events'[i].last_seen_at = now'
                       /\ before = {} =>
                             telnyx_webhook_events'[i].first_seen_at = now'
      ]_vars

\* C1 witness: an event id delivered again: its one document was first seen
\* at an earlier delivery and last seen at this one.
C1_Witness ==
    /\ request.endpoint = "sms"
    /\ response.code = 200
    /\ request.payload.body.data_id = "e1"
    /\ Len(telnyx_webhook_events) = 1
    /\ telnyx_webhook_events[1].event_id = "e1"
    /\ telnyx_webhook_events[1].first_seen_at < now
    /\ telnyx_webhook_events[1].last_seen_at = now

\* A header of the request carries a signature the carrier made over the
\* request's own timestamp and body: its Ed25519 key, or the HMAC under the
\* shared secret.
CarrierSigned(req) ==
    \/ req.headers.v2_sig =
           Sign("telnyx-sk", <<req.headers.v2_ts, "|", req.body>>)
    \/ req.headers.v1_sig.v1 =
           Sign("whsec", <<req.headers.v1_sig.t, ".", req.body>>)

\* C2: a /sms delivery that carries no signature of the carrier (tampered
\* Ed25519 signature, HMAC under a wrong secret, or no signature header) is
\* answered 401 and leaves telnyx_webhook_events and telnyx_messages as they
\* were.
C2_SignatureRejection ==
    [][(/\ now' # now
        /\ request'.endpoint = "sms"
        /\ ~CarrierSigned(request'.payload))
       => /\ response'.code = 401
          /\ telnyx_webhook_events' = telnyx_webhook_events
          /\ telnyx_messages' = telnyx_messages
      ]_vars

\* C2 witness: with both secrets configured and documents stored, a delivery
\* of a new event with a tampered Ed25519 signature and a wrong HMAC was
\* answered 401, and the new event is not stored.
C2_Witness ==
    /\ TELNYX_PUBLIC_KEY # Empty
    /\ TELNYX_WEBHOOK_SECRET # Empty
    /\ request.endpoint = "sms"
    /\ response.code = 401
    /\ request.payload.headers.v2_sig.key = "corrupt"
    /\ request.payload.headers.v1_sig.v1.key = "guess"
    /\ request.payload.body.data_id = "e2"
    /\ request.payload.body.payload_id = "m1"
    /\ Len(telnyx_webhook_events) = 1
    /\ EventDocs(telnyx_webhook_events, "e2") = {}
    /\ telnyx_messages = <<>>

\* C3 (the claim): once both concurrent /call deliveries for call_key "A"
\* have responded, calls holds at most one document with that call_key.
C3_OneDocumentPerCallKey ==
    (\A q \in Connections : pc[q] = "idle")
    => Cardinality({i \in 1..Len(calls) : calls[i].call_key = "A"}) <= 1

\* C4: under every interleaving of the store operations of concurrent
\* verified /sms deliveries, no two documents of telnyx_webhook_events share
\* an event_id and no two documents of telnyx_messages share a message_id.
C4_SmsStoreUniqueness ==
    /\ UniqueEventIds(telnyx_webhook_events)
    /\ UniqueMessageIds(telnyx_messages)

\* C4 witness: two connections raced to insert the same message id: the
\* filter of each matched nothing, one document is stored, and the loser's
\* insert was refused (its request ended with a 500).
C4_Witness ==
    /\ response.endpoint = "sms"
    /\ response.code = 500
    /\ response.message_id = "m1"
    /\ Cardinality({i \in 1..Len(telnyx_messages) :
                       telnyx_messages[i].message_id = "m1"}) = 1
    /\ \A q \in Connections : sms_pc[q] = "idle"

\* The documents of calls that match identifier x by call_key,
\* call_session_id or call_sid.
DocsFor(x) ==
    {i \in 1..Len(calls) :
        \/ calls[i].call_key = x
        \/ calls[i].call_session_id = x
        \/ calls[i].call_sid = x}

\* C5 (the claim): whatever deliveries identified a call as x, through
\* /voice, /call or /status, calls never holds two documents that match x.
C5_CrossPathConvergence ==
    \A x \in {"A", "B"} : Cardinality(DocsFor(x)) <= 1

\* C6 (the claim): a document with call_completed = true still has it after
\* every further delivery.
C6_NoUncompletion ==
    [][\A i \in 1..Len(calls) :
          calls[i].call_completed = "true"
          => calls'[i].call_completed = "true"]_vars

\* C7 (the claim): no delivery changes the call_key of a stored document.
C7_CallKeyImmutable ==
    [][\A i \in 1..Len(calls) : calls'[i].call_key = calls[i].call_key]_vars

\* The nested sub-fields of contact, service_address and problem.
NestedFields ==
    {"contact_name", "contact_phone_e164", "service_address_street",
     "problem_summary"}

\* C8: a /call delivery that updates an existing document sets each nested
\* sub-field to the incoming value when that value is neither absent, null
\* nor empty, and leaves it as stored otherwise; other documents keep theirs.
C8_MergeNonDestructive ==
    [][(/\ now' # now
        /\ request'.endpoint = "call"
        /\ response'.operation = "updated")
       => LET p == request'.payload
              i == First(CallMatches(calls, CallIdentifier(p)))
          IN  /\ Len(calls') = Len(calls)
              /\ \A j \in 1..Len(calls), f \in NestedFields :
                    calls'[j][f] =
                        IF j = i /\ p[f] \notin {Absent, Null, Empty}
                        THEN p[f] ELSE calls[j][f]
      ]_vars

\* C8 witness: an update that brought a phone number, sent the name as an
\* empty string and omitted the street was applied to a document that keeps
\* its name and street beside the new phone.
C8_Witness ==
    /\ request.endpoint = "call"
    /\ response.operation = "updated"
    /\ request.payload.contact_name = Empty
    /\ request.payload.contact_phone_e164 = "+15550001111"
    /\ request.payload.service_address_street = Absent
    /\ Len(calls) = 1
    /\ calls[1].contact_name = "Jane"
    /\ calls[1].contact_phone_e164 = "+15550001111"
    /\ calls[1].service_address_street = "1 Main St"

\* A /call payload that is final: call_status completed or disconnected,
\* data_collection_status complete, or call_completed truthy.
FinalPayload(p) ==
    \/ p.call_status \in {"completed", "disconnected"}
    \/ p.data_collection_status = "complete"
    \/ p.call_completed = "true"

\* The last delivery was an accepted final /call delivery.
AcceptedFinalCall ==
    /\ request.endpoint = "call"
    /\ response.code = 200
    /\ FinalPayload(request.payload)

\* C9 (the claim): after an accepted final /call delivery, first or not, the
\* document of that call has call_completed = true and final_updated_at set.
C9_CompletionStamped ==
    AcceptedFinalCall
    => \A i \in CallMatches(calls, CallIdentifier(request.payload)) :
          /\ calls[i].call_completed = "true"
          /\ calls[i].final_updated_at # NoTime

\* C10 (the claim): after an accepted final /call delivery whose merged view
\* (the document with the payload merged in) has a name, a phone, a street
\* and a summary, the document is qualified with lead_status
\* pending_approval.
C10_QualifiedOnCompletion ==
    AcceptedFinalCall
    => \A i \in CallMatches(calls, CallIdentifier(request.payload)) :
          (\A f \in NestedFields : Truthy(calls[i][f]))
          => /\ calls[i].qualified = "true"
             /\ calls[i].lead_status = "pending_approval"

\* C11 (the claim): no stored conversation_log holds two entries with the
\* same timestamp.
C11_LogTimestampsDistinct ==
    \A d \in 1..Len(calls) :
        \A i, j \in 1..Len(calls[d].conversation_log) :
            i # j => calls[d].conversation_log[i].timestamp #
                         calls[d].conversation_log[j].timestamp

\* The entries of a payload's conversation_log, as cleaned, whose timestamp
\* the stored log of document d does not have.
UnseenEntries(d, p) ==
    SelectSeq(CleanLog(p.conversation_log),
              LAMBDA e : \A i \in 1..Len(d.conversation_log) :
                            d.conversation_log[i].timestamp # e.timestamp)

\* C12 (the claim): a /call delivery to an existing document that brings an
\* entry with a timestamp the stored log does not have is accepted, and the
\* stored log is then the previous log followed by the new entries; and no
\* delivery removes or reorders stored entries.
C12_LogAppended ==
    [][/\ \A d \in 1..Len(calls) :
             /\ Len(calls'[d].conversation_log) >= Len(calls[d].conversation_log)
             /\ SubSeq(calls'[d].conversation_log, 1,
                       Len(calls[d].conversation_log)) = calls[d].conversation_log
       /\ (/\ now' # now
           /\ request'.endpoint = "call"
           /\ CallMatches(calls, CallIdentifier(request'.payload)) # {})
          => LET p == request'.payload
                 d == First(CallMatches(calls, CallIdentifier(p)))
             IN  UnseenEntries(calls[d], p) # <<>>
                 => /\ response'.code = 200
                    /\ calls'[d].conversation_log =
                           calls[d].conversation_log \o UnseenEntries(calls[d], p)
      ]_vars

\* A collection with the timestamps of its documents blanked.
WithoutTimes(coll) ==
    [i \in 1..Len(coll) |->
        [coll[i] EXCEPT !.updated_at = NoTime, !.final_updated_at = NoTime]]

\* C13 (the claim): from every store state and for every /call payload with
\* an identifier, delivering the payload twice in succession leaves the
\* documents (timestamps aside) that delivering it once leaves, and both
\* deliveries are answered with success.
C13_RetryIdempotent ==
    (now + 2 <= MaxRequests) =>
    \A p \in LogPayloads :
        LET once == CallResult(calls, calls_unique_index, p, now + 1)
            twice == CallResult(once.calls, calls_unique_index, p, now + 2)
        IN  /\ once.response.code = 200
            /\ twice.response.code = 200
            /\ WithoutTimes(twice.calls) = WithoutTimes(once.calls)

\* The positions of the documents of telnyx_messages with message id m.
MessageDocs(coll, m) == {i \in 1..Len(coll) : coll[i].message_id = m}

\* The step is a verified /sms delivery carrying a message id.
VerifiedMessageDelivery ==
    /\ now' # now
    /\ request'.endpoint = "sms"
    /\ response'.code = 200
    /\ request'.payload.body.payload_id # Absent

\* The event ids a delivery adds to event_ids: its own, when it has one.
DeliveredEventIds(body) ==
    IF body.data_id = Absent THEN {} ELSE {body.data_id}

\* C14: no step removes an id from the event_ids of a message document; a
\* verified delivery for message id m leaves one document for m whose
\* event_ids is what was stored before (nothing, for the first delivery)
\* together with the delivery's event id when it has one, and unchanged when
\* it has none.
C14_EventIdsAccumulate ==
    [][/\ \A i \in 1..Len(telnyx_messages) :
             telnyx_messages[i].event_ids \subseteq telnyx_messages'[i].event_ids
       /\ VerifiedMessageDelivery =>
             LET b == request'.payload.body
                 before == MessageDocs(telnyx_messages, b.payload_id)
                 after == MessageDocs(telnyx_messages', b.payload_id)
                 stored == UNION {telnyx_messages[i].event_ids : i \in before}
             IN  /\ Cardinality(after) = 1
                 /\ \A i \in after :
                       telnyx_messages'[i].event_ids =
                           stored \cup DeliveredEventIds(b)
      ]_vars

\* C14 witness: after deliveries with event ids e1 and e2 for message m1, a
\* delivery without an event id left event_ids = {e1, e2}.
C14_Witness ==
    /\ request.endpoint = "sms"
    /\ response.code = 200
    /\ request.payload.body.data_id = Absent
    /\ request.payload.body.payload_id = "m1"
    /\ Len(telnyx_messages) = 1
    /\ telnyx_messages[1].event_ids = {"e1", "e2"}

\* C15: a verified delivery for message id m leaves the document of m with
\* the status, timestamps, event type, event id and occurred_at of this
\* delivery (null where the delivery has none) and updated_at the time of
\* this delivery, whatever was stored and whatever the occurred_at values;
\* message_id and created_at are those of the first delivery, and no step
\* changes them.
C15_LastWriteWins ==
    [][/\ \A i \in 1..Len(telnyx_messages) :
             /\ telnyx_messages'[i].message_id = telnyx_messages[i].message_id
             /\ telnyx_messages'[i].created_at = telnyx_messages[i].created_at
       /\ VerifiedMessageDelivery =>
             LET b == request'.payload.body
                 before == MessageDocs(telnyx_messages, b.payload_id)
             IN  \A i \in MessageDocs(telnyx_messages', b.payload_id) :
                    LET d == telnyx_messages'[i]
                    IN  /\ d.status = Get(b.payload_status)
                        /\ d.timestamps.sent_at = Get(b.payload_sent_at)
                        /\ d.timestamps.completed_at = Get(b.payload_completed_at)
                        /\ d.last_event_type = Get(b.data_event_type)
                        /\ d.last_event_id = Get(b.data_id)
                        /\ d.last_occurred_at = Get(b.data_occurred_at)
                        /\ d.updated_at = now'
                        /\ before = {} => d.created_at = now'
      ]_vars

\* C15 witness: the event that occurred first arrived last: after the
\* finalized event (occurred 09:05) the sent event (occurred 09:00) was
\* delivered, and the message shows status sent; created_at is the first
\* delivery's time.
C15_Witness ==
    /\ request.endpoint = "sms"
    /\ response.code = 200
    /\ request.payload.body.data_event_type = "message.sent"
    /\ Len(telnyx_webhook_events) = 2
    /\ telnyx_webhook_events[1].event_type = "message.finalized"
    /\ telnyx_webhook_events[1].first_seen_at < now
    /\ Len(telnyx_messages) = 1
    /\ telnyx_messages[1].status = "sent"
    /\ telnyx_messages[1].last_occurred_at = "09:00"
    /\ telnyx_messages[1].timestamps.completed_at = Null
    /\ telnyx_messages[1].created_at < telnyx_messages[1].updated_at
    /\ telnyx_messages[1].updated_at = now

\* Both Ed25519 headers are there and the signature validates under the
\* configured public key.
Ed25519Validates(req) ==
    /\ req.headers.v2_sig # NoSignature
    /\ req.headers.v2_ts # Absent
    /\ verify_v2_signature(req.headers.v2_ts, req.body, req.headers.v2_sig,
                           TELNYX_PUBLIC_KEY)

\* An x-telnyx-signature header is there and validates under the configured
\* secret.
HmacValidates(req) ==
    /\ req.headers.v1_sig # [t |-> Absent, v1 |-> NoSignature]
    /\ verify_v1_signature(req.headers.v1_sig, req.body, TELNYX_WEBHOOK_SECRET)

\* C16: every /sms delivery whose Ed25519 signature validates is verified
\* with method ed25519, whatever its HMAC header; otherwise one whose HMAC
\* validates is verified with method hmac-sha256; otherwise it is rejected
\* (401); and no stored event or message has verification_method "none".
C16_MethodSelection ==
    [][/\ (now' # now /\ request'.endpoint = "sms") =>
             LET req == request'.payload
             IN  IF Ed25519Validates(req)
                 THEN response'.code = 200 /\
                      response'.verification_method = "ed25519"
                 ELSE IF HmacValidates(req)
                 THEN response'.code = 200 /\
                      response'.verification_method = "hmac-sha256"
                 ELSE response'.code = 401
       /\ \A i \in 1..Len(telnyx_webhook_events') :
             telnyx_webhook_events'[i].verification_method
                 \in {"ed25519", "hmac-sha256"}
       /\ \A i \in 1..Len(telnyx_messages') :
             telnyx_messages'[i].verification_method
                 \in {"ed25519", "hmac-sha256"}
      ]_vars

\* C16 witness: a delivery carrying a valid Ed25519 signature and a valid
\* HMAC was stored with method ed25519, over an event first stored with
\* method hmac-sha256.
C16_Witness ==
    /\ request.endpoint = "sms"
    /\ response.code = 200
    /\ response.verification_method = "ed25519"
    /\ request.payload.headers.v2_sig.key = "telnyx-sk"
    /\ request.payload.headers.v1_sig.v1.key = "whsec"
    /\ Len(telnyx_webhook_events) = 2
    /\ telnyx_webhook_events[1].verification_method = "hmac-sha256"
    /\ telnyx_webhook_events[2].verification_method = "ed25519"

\* C17: with neither TELNYX_PUBLIC_KEY nor TELNYX_WEBHOOK_SECRET configured,
\* every /sms delivery is answered 401 and both collections stay empty.
C17_FailClosed ==
    (TELNYX_PUBLIC_KEY = Empty /\ TELNYX_WEBHOOK_SECRET = Empty)
    => /\ telnyx_webhook_events = <<>>
       /\ telnyx_messages = <<>>
       /\ request.endpoint = "sms" => response.code = 401

\* C17 witness: with nothing configured, a delivery signed by the carrier's
\* Ed25519 key and carrying an HMAC made under the empty secret was the
\* third to be answered 401.
C17_Witness ==
    /\ TELNYX_PUBLIC_KEY = Empty
    /\ TELNYX_WEBHOOK_SECRET = Empty
    /\ now = MaxRequests
    /\ request.endpoint = "sms"
    /\ request.payload.headers.v2_sig.key = "telnyx-sk"
    /\ request.payload.headers.v1_sig.v1.key = Empty
    /\ request.payload.headers.v1_sig.t # Absent
    /\ response.code = 401
    /\ telnyx_webhook_events = <<>>

\* A value that identifies nothing: the key is missing, null or empty.
Missing(v) == v \in {Absent, Null, Empty}

\* The one of two values a payload carries: the first unless it is missing.
Carried(a, b) == IF Missing(a) THEN b ELSE a

\* The step is a delivery to the given endpoint.
Delivery(ep) == now' # now /\ request'.endpoint = ep

C19_CallResolvesLikeVoice ==
    (request.endpoint = "call" /\ ~Missing(request.payload.call_session_id))
    => /\ response.code # 400
       /\ response.code = 200
          => response.call_identifier = request.payload.call_session_id

AppliedUpdate(d) ==
    /\ Delivery("call")
    /\ response'.operation = "updated"
    /\ d = First(CallMatches(calls, CallIdentifier(request'.payload)))

\* A list all of whose items are values (not null, not empty).
Clean(list) == \A i \in 1..Len(list) : ~Missing(list[i])

\* C21: after a /call update carrying a non-empty reason_codes list is
\* applied, the stored reason_codes hold each code once and are, as a set,
\* the codes stored before together with the incoming ones; and no step
\* loses a stored code.
C21_ReasonCodesUnion ==
    [][/\ \A d \in 1..Len(calls) :
             Range(calls[d].reason_codes) \subseteq Range(calls'[d].reason_codes)
       /\ \A d \in 1..Len(calls) :
             LET codes == request'.payload.reason_codes
             IN  (AppliedUpdate(d) /\ codes # <<>> /\ Clean(codes))
                 => /\ Range(calls'[d].reason_codes) =
                           Range(calls[d].reason_codes) \cup Range(codes)
                    /\ Len(calls'[d].reason_codes) =
                           Cardinality(Range(calls'[d].reason_codes))
      ]_vars

\* C21 witness: a document created with the code r1 twice was updated with
\* r2 and r1 and holds r1 and r2 once each.
C21_Witness ==
    /\ request.endpoint = "call"
    /\ response.operation = "updated"
    /\ request.payload.reason_codes = <<"r2", "r1">>
    /\ now = 2
    /\ Len(calls) = 1
    /\ Range(calls[1].reason_codes) = {"r1", "r2"}
    /\ Len(calls[1].reason_codes) = 2

\* The top-level scalar fields of a call document that a /call payload can
\* carry; the last three are also stamped by a final delivery.
ScalarFields ==
    {"call_key", "call_session_id", "notes", "call_completed", "qualified",
     "lead_status"}

\* Field f is one a final delivery stamps whatever the payload carries.
Stamped(p, f) ==
    FinalPayload(p) /\ f \in {"call_completed", "qualified", "lead_status"}

\* C22 (the claim): a /call update sets each top-level scalar field to the
\* incoming value when that value is not null or empty, and leaves the
\* stored value when the field is absent, null or empty (the completion
\* stamps of a final delivery aside).
C22_ScalarOverwrite ==
    [][\A d \in 1..Len(calls) :
          AppliedUpdate(d) =>
             \A f \in ScalarFields :
                LET p == request'.payload
                IN  Stamped(p, f) \/
                    calls'[d][f] = IF Missing(p[f]) THEN calls[d][f] ELSE p[f]
      ]_vars

\* C23: a /call update carrying a non-empty availability list leaves
\* exactly that list stored; an update with absent or empty availability
\* leaves the stored list as it was.
C23_AvailabilityReplaced ==
    [][\A d \in 1..Len(calls) :
          LET slots == request'.payload.availability
          IN  AppliedUpdate(d) =>
                 /\ (slots # <<>> /\ Clean(slots))
                    => calls'[d].availability = slots
                 /\ slots = <<>>
                    => calls'[d].availability = calls[d].availability
      ]_vars

\* C23 witness: a document holding the slot mon was updated with the slots
\* tue and wed and holds those two; the update before, without availability,
\* had left mon in place.
C23_Witness ==
    /\ request.endpoint = "call"
    /\ response.operation = "updated"
    /\ request.payload.availability = <<"tue", "wed">>
    /\ now = 3
    /\ Len(calls) = 1
    /\ calls[1].availability = <<"tue", "wed">>
    /\ calls[1].notes = "n1"


\* The score the scoring table gives a lead: the points of each row whose
\* condition the lead meets.
TableScore(cd) ==
    LET rows ==
            <<<<Truthy(cd.contact_name), 10>>,
              <<Truthy(cd.contact_phone_e164), 20>>,
              <<Truthy(cd.service_address_street)
                /\ Truthy(cd.service_address_zip), 15>>,
              <<Truthy(cd.in_service_area), 10>>,
              <<Truthy(cd.problem_summary), 15>>,
              <<Truthy(cd.problem_category), 10>>,
              <<cd.problem_urgency \in {"emergency", "urgent"}, 10>>,
              <<cd.availability # <<>>, 10>>>>
        upto[n \in 0..Len(rows)] ==
            IF n = 0 THEN 0
            ELSE upto[n - 1] + (IF rows[n][1] THEN rows[n][2] ELSE 0)
    IN  upto[Len(rows)]

\* An outcome (score, status, reasons) is the one the table and the
\* thresholds give the lead.
OutcomeOfTable(cd, score, status, reasons) ==
    /\ score = TableScore(cd)
    /\ "missing_phone" \in Range(reasons) <=> ~Truthy(cd.contact_phone_e164)
    /\ "out_of_service_area" \in Range(reasons) <=> ~Truthy(cd.in_service_area)
    /\ status = "qualified" <=> score >= 70
    /\ status = "needs_review" <=> (50 <= score /\ score <= 69)
    /\ status = "disqualified" <=> score < 50
    /\ "low_score" \in Range(reasons) <=> status = "needs_review"
    /\ "insufficient_information" \in Range(reasons)
           <=> status = "disqualified"

\* Without its phone number a lead scores exactly 20 less and is flagged.
PhoneIsWorth20(cd) ==
    LET without == [cd EXCEPT !.contact_phone_e164 = Absent]
        score == QualificationScore(without)
    IN  Truthy(cd.contact_phone_e164) =>
            /\ score = QualificationScore(cd) - 20
            /\ "missing_phone" \in Range(QualificationReasons(without, score))

EveryLeadScoredByTable ==
    \A cd \in CustomerDataInputs :
        LET score == QualificationScore(cd)
        IN  /\ OutcomeOfTable(cd, score, QualificationStatus(score),
                              QualificationReasons(cd, score))
            /\ PhoneIsWorth20(cd)

QualificationAnswered ==
    response.endpoint = "lead_qualifications" /\ response.code = 200

\* C24: the qualification tool scores every lead by the table (+10 name, +20
\* phone, +15 street and zip, +10 in service area, +15 summary, +10
\* category, +10 urgency emergency or urgent, +10 availability), flags
\* missing_phone iff the phone is absent and out_of_service_area iff
\* in_service_area is falsy, and gives qualified from 70, needs_review with
\* low_score from 50 to 69, disqualified with insufficient_information
\* below 50; taking the phone away costs exactly 20 points.  This holds of
\* every lead, and of the answer and the stored record of every accepted
\* request.
C24_QualificationScoring ==
    /\ EveryLeadScoredByTable
    /\ QualificationAnswered =>
          LET cd == request.payload.customer_data
              stored == tool_records["lead_qualifications"]
              rec == stored[Len(stored)]
          IN  /\ OutcomeOfTable(cd, response.score, response.status,
                                response.reasons)
              /\ PhoneIsWorth20(cd)
              /\ rec.score = response.score
              /\ rec.status = response.status
              /\ rec.reasons = response.reasons

\* A lead with everything but the phone was accepted after the same lead
\* with its phone: 80 points and missing_phone after 100 and no reason.
C24_Witness ==
    /\ QualificationAnswered
    /\ request.payload.customer_data =
           [FullCustomerData EXCEPT !.contact_phone_e164 = Absent]
    /\ response.score = 80 /\ response.status = "qualified"
    /\ response.reasons = <<"missing_phone">>
    /\ \E i \in 1..Len(tool_records["lead_qualifications"]) :
          /\ tool_records["lead_qualifications"][i].score = 100
          /\ tool_records["lead_qualifications"][i].reasons = <<>>


\* C25: in each side-effect collection any two records, created by distinct
\* accepted tool requests, carry distinct synthesized ids, also when the
\* requests are for the same tenant (or tenants sharing the prefix the id
\* keeps) and fall in the same clock second.
C25_DistinctIds ==
    \A tool \in Tools :
        \A i, j \in 1..Len(tool_records[tool]) :
            i # j => tool_records[tool][i].id # tool_records[tool][j].id

\* A step in which a tool that links its record to the call inserted one.
Inserted(tool) ==
    /\ request'.endpoint = tool
    /\ Len(tool_records'[tool]) = Len(tool_records[tool]) + 1

\* C26: in the appointment, qualification, ticket and emergency tools a
\* request whose record was inserted is answered with success and the id of
\* that record, whatever happens to the update of the call document.
C26_BackPatchNonFatal ==
    [][\A tool \in PatchingTools :
          Inserted(tool) =>
              /\ response'.code = 200
              /\ response'.id =
                     tool_records'[tool][Len(tool_records'[tool])].id]_vars

\* C27: every record of the seven side-effect collections has a non-empty
\* tenant_id and a non-empty call_session_id, and a tool request lacking
\* either is answered 400.
C27_BackReferences ==
    /\ \A tool \in Tools :
          \A i \in 1..Len(tool_records[tool]) :
              /\ tool_records[tool][i].tenant_id # <<>>
              /\ Truthy(tool_records[tool][i].call_session_id)
    /\ (/\ request.endpoint \in Tools
        /\ \/ request.payload.tenant_id = <<>>
           \/ ~Truthy(request.payload.call_session_id))
           => response.code = 400

\* C28: a tool request that ends with an error response leaves every
\* collection as it was before the request.
C28_NoPartialWrite ==
    [][(now' = now + 1 /\ request'.endpoint \in Tools
        /\ response'.code >= 400)
           => (tool_records' = tool_records /\ calls' = calls)]_vars


\* The addresses a from/to value names, in order: a string is its own
\* address, an object names its phone_number or else its address, an array
\* names those of its entries.
AddressesOf(v) ==
    LET one(e) == IF e.kind = "str" THEN <<e.value>>
                  ELSE IF e.kind = "dict"
                          /\ Truthy(Or(e.phone_number, e.address))
                  THEN <<Or(e.phone_number, e.address)>>
                  ELSE <<>>
        all[n \in 0..(IF v.kind = "list" THEN Len(v.items) ELSE 0)] ==
            IF n = 0 THEN <<>> ELSE all[n - 1] \o one(v.items[n])
    IN  IF v.kind = "list" THEN all[Len(v.items)] ELSE one(v)

\* _normalize_event returned for an event with a payload object.
NormalizedPayload ==
    /\ response.endpoint = "normalize" /\ ~response.raised
    /\ request.payload.data.kind = "dict"
    /\ request.payload.data.payload.kind = "dict"

\* C29: whichever of the three shapes (string, object with phone_number or
\* address, array of these) payload.to and payload.from come in, the
\* normalized `to` is the list of the addresses in order and the normalized
\* `from` is the address; neither is empty or None when an address is there.
C29_AddressShapes ==
    NormalizedPayload =>
        LET payload == request.payload.data.payload
            from == AddressesOf(payload.from)
            to == AddressesOf(payload.to)
        IN  /\ from # <<>> => response.normalized.from = from[1]
            /\ to # <<>> => response.normalized.to = to

\* C30: _normalize_event does not raise on an event whose nested keys are
\* absent or null; what is absent normalizes to None or to an empty list or
\* object, and raw_event is the event itself.
C30_NormalizerTolerance ==
    response.endpoint = "normalize" =>
        LET evt == request.payload
            n == response.normalized
            no_data == evt.data.kind \in {"absent", "null"}
            no_payload == no_data \/ evt.data.payload.kind \in {"absent", "null"}
        IN  /\ ~response.raised
            /\ n.raw_event = evt
            /\ no_data => n.event_id = Null /\ n.event_type = Null
            /\ no_payload =>
                  /\ n.message_id = Null /\ n.status = Null /\ n.from = Null
                  /\ n.to = <<>> /\ n.media = JList(<<>>)
                  /\ n.errors = JList(<<>>) /\ n.cost = NoCost


Queued(coll) == {i \in 1..Len(coll) : coll[i].status = "queued"}

\* C39: when the notification tool answers success, the record that request
\* inserted has status "sent" and its sent_at set, and no record is queued
\* that was not queued before the request.
C39_NotificationSent ==
    [][(/\ now' = now + 1
        /\ request'.endpoint = "notifications"
        /\ response'.code = 200)
           => LET coll == tool_records'["notifications"]
              IN  /\ coll[Len(coll)].status = "sent"
                  /\ coll[Len(coll)].sent_at # NoTime
                  /\ Queued(coll) \subseteq Queued(tool_records["notifications"])
      ]_vars


\* C36: every document of the calls collection has a call_key that is not
\* null (absent is indexed as null), whichever endpoint created it, and so no
\* delivery that would create a document for another call is refused by the
\* unique index.
C36_CallKeyPresent ==
    /\ \A i \in 1..Len(calls) : calls[i].call_key \notin {Absent, Null}
    /\ (response.endpoint = "status" /\ Truthy(response.call_identifier))
           => response.code = 200


\* A /voice delivery was accepted in this step.
VoiceAccepted ==
    /\ now' = now + 1
    /\ request'.endpoint = "voice"
    /\ response'.code = 200

\* The document of call_key k, NoCallDoc when there is none.
VoiceDoc(coll, k) ==
    LET i == First({j \in 1..Len(coll) : coll[j].call_key = k})
    IN  IF i = 0 THEN NoCallDoc ELSE coll[i]

\* C32: an accepted /voice delivery for call_key k appends exactly one entry
\* to the events of k's document, the entries before it unchanged, and sets
\* last_status and last_event_type to the delivery's call_status and
\* event_type, whatever other keys the payload carries.
C32_VoiceEventLog ==
    [][VoiceAccepted =>
          LET p == request'.payload
              before == VoiceDoc(calls, response'.call_identifier)
              after == VoiceDoc(calls', response'.call_identifier)
          IN  /\ Len(after.events) = Len(before.events) + 1
              /\ SubSeq(after.events, 1, Len(before.events)) = before.events
              /\ after.last_status = VoiceCallStatus(p)
              /\ after.last_event_type = VoiceEventType(p)]_vars

\* C33: an accepted /voice delivery with a call_status other than
\* "initiated" whose contact object omits a sub-field leaves the stored
\* value of that sub-field.
C33_VoiceMergeNonDestructive ==
    [][(VoiceAccepted /\ VoiceCallStatus(request'.payload) # "initiated") =>
          LET p == request'.payload
              before == VoiceDoc(calls, response'.call_identifier)
              after == VoiceDoc(calls', response'.call_identifier)
          IN  /\ p.contact_name = Absent
                     => after.contact_name = before.contact_name
              /\ p.contact_phone_e164 = Absent
                     => after.contact_phone_e164 = before.contact_phone_e164
      ]_vars


\* C37: a /voice, /call or /sms delivery handled while the store is out of
\* reach is answered 503 and writes nothing, the first such delivery and
\* every later one.
C37_StoreUnavailable ==
    [][(/\ now' = now + 1
        /\ ~store_reachable
        /\ request'.endpoint \in {"voice", "call", "sms"})
       => /\ response'.code = 503
          /\ UNCHANGED <<calls, telnyx_webhook_events, telnyx_messages>>]_vars


\* A flag is set only with its unique indices in place.
IndexReadyAfterCreation ==
    /\ pipecat_INDEX_READY => calls_unique_index
    /\ telnyx_INDEX_READY
           => (telnyx_unique_index.event_id /\ telnyx_unique_index.message_id)

\* What a step may do to the flags and with create_index.
IndexGuardStep ==
    /\ pipecat_INDEX_READY => pipecat_INDEX_READY'
    /\ telnyx_INDEX_READY => telnyx_INDEX_READY'
    /\ telnyx_INDEX_READY => index_attempts'.telnyx = index_attempts.telnyx
    /\ index_attempts'.pipecat # index_attempts.pipecat
           => \E q \in Connections : pc[q] = "create"
    /\ \A q \in Connections :
          /\ (pc[q] = "idle" /\ pc'[q] = "create") => ~pipecat_INDEX_READY
          /\ (pc[q] = "idle" /\ pc'[q] = "upsert") => pipecat_INDEX_READY
          /\ (pc[q] = "upsert" /\ pc'[q] = "idle")
                 => index_attempts.pipecat >= 1
    /\ (/\ request'.endpoint = "sms" /\ now' = now + 1 /\ pc' = pc
        /\ response'.code \in {200, 500} /\ ~telnyx_INDEX_READY)
           => index_attempts'.telnyx = index_attempts.telnyx + 1

\* C35: an index guard's flag is true only after every create_index
\* succeeded and is never reset; a request that finds it true issues no
\* create_index, one that finds it false (after a failed attempt, too)
\* issues it again; with two concurrent first requests creation may run
\* twice, but no request reaches its upsert before a creation attempt has
\* completed.
C35_IndexOnceGuard == []IndexReadyAfterCreation /\ [][IndexGuardStep]_vars

\* Both flags set, the calls index after two attempts, and a call stored.
C35_Witness ==
    /\ pipecat_INDEX_READY /\ telnyx_INDEX_READY
    /\ index_attempts.pipecat = 2
    /\ calls # <<>>


\* C31: when /call updates for the same existing call are handled
\* concurrently, every interleaving of their find_one and update_one steps
\* leaves in the stored reason_codes each code stored before and each code
\* the updates carried: an update that is applied keeps the stored codes and
\* adds its own.
C31_NoLostReasonCodes ==
    [][\A q \in Connections :
          (/\ pc[q] = "found" /\ pc'[q] = "idle"
           /\ local[q].existing.found
           /\ response'.code = 200)
          => (Range(VoiceDoc(calls, "A").reason_codes)
                  \cup Range(local[q].payload.reason_codes))
                 \subseteq Range(VoiceDoc(calls', "A").reason_codes)]_vars


\* The document a /status delivery for sid updates, NoCallDoc when none
\* matches.
StatusDoc(coll, sid) ==
    LET i == First(StatusMatches(coll, sid))
    IN  IF i = 0 THEN NoCallDoc ELSE coll[i]

\* C34: an accepted /status delivery with event_type "call.transcription"
\* appends one entry to transcriptions and one to events and leaves
\* last_status, duration and from as they were; a delivery of another event
\* type leaves transcriptions as they were and never replaces a stored
\* duration or from by null.
C34_TranscriptionSpecialCase ==
    [][(/\ now' = now + 1
        /\ request'.endpoint = "status"
        /\ response'.code = 200)
       => LET p == request'.payload
              before == StatusDoc(calls, StatusCallSid(p))
              after == StatusDoc(calls', StatusCallSid(p))
          IN  IF StatusEventType(p) = "call.transcription"
              THEN /\ after.transcriptions =
                          Append(before.transcriptions, TranscriptionEntry(p))
                   /\ Len(after.events) = Len(before.events) + 1
                   /\ after.last_status = before.last_status
                   /\ after.duration = before.duration
                   /\ after.from = before.from
              ELSE /\ after.transcriptions = before.transcriptions
                   /\ before.duration # Absent
                          => after.duration \notin {Absent, Null}
                   /\ before.from # Absent
                          => after.from \notin {Absent, Null}]_vars

\* A transcription was delivered for a call whose status, duration and
\* caller an earlier delivery had stored.
C34_Witness ==
    /\ response.endpoint = "status" /\ response.code = 200
    /\ request.payload.event_type = "call.transcription"
    /\ request.payload.CallDuration = "42"
    /\ request.payload.CallStatus = "ringing"
    /\ Len(calls) = 1
    /\ Len(calls[1].transcriptions) = 1
    /\ Len(calls[1].events) = 3
    /\ calls[1].last_status = "ringing"
    /\ calls[1].duration = "42"
    /\ calls[1].from = "+15550001"

=============================================================================
